---------------------------- MODULE Spec2Model ----------------------------
(***************************************************************************)
(* A state-machine model of the Prismalia MVP core (src/src): the tile    *)
(* map and its generation, the inventory, the player's and the            *)
(* companion's movement, the companion's command queue and the world      *)
(* orchestrator.                                                           *)
(*                                                                         *)
(* Numbers.  Python floats are modelled in fixed point.                    *)
(*   - positions and distances: Unit steps per tile (Unit = 20, so one     *)
(*     step is 0.05 tile); 0.1 is 2 steps, 0.2 is 4 steps, 1.8 is 36.      *)
(*   - time: dt is counted in tenths of a second.                          *)
(*   - noise values, moisture, heights, probabilities: NoiseOne = 1000     *)
(*     stands for 1.0.                                                     *)
(*   - hunger: HungerOne = 600 stands for one hunger point, so that the    *)
(*     drain DECAY / 60 * dt is an integer.                                *)
(* Comparisons of distances are made on squared lengths, which are exact.  *)
(***************************************************************************)
EXTENDS Integers, Sequences, FiniteSets, TLC

(* ------------------------------ bounds --------------------------------- *)

\* grid size of the worlds explored (World.__init__'s size parameter)
GridWidth == 5
GridHeight == 2
\* ticks of one run of Animal.update or Player.update, frames of one run of
\* World.update, and the longest tick in tenths of a second
MaxTicks == 5
MaxFrames == 2
MaxDt == 5
\* commands enqueued in one run
MaxCommands == 2
\* calls of one run of the interaction helpers
MaxCalls == 4

\* frames of one run with a key held
MaxHoldTicks == 12

\* ticks given to the companion to finish what was enqueued
MaxRunTicks == 24

\* ticks given to one sequence of three commands
MaxSequenceTicks == 8

(* ------------------------- fixed-point scales --------------------------- *)

Unit == 4 * 5
NoiseOne == 10 * 100
HungerOne == 6 * 100

None == "none"

Abs(a) == IF a < 0 THEN -a ELSE a
Min(a, b) == IF a < b THEN a ELSE b
Max(a, b) == IF a > b THEN a ELSE b

\* Python's int(): truncation towards zero of a quotient
TruncDiv(a, b) == IF a >= 0 THEN a \div b ELSE -((-a) \div b)

\* math.floor of a position given in steps: the tile index
FloorTile(p) == p \div Unit

\* int() of a position given in steps (truncation towards zero)
IntTile(p) == TruncDiv(p, Unit)

RECURSIVE SqrtSearch(_, _, _)
SqrtSearch(n, lo, hi) ==
    IF lo >= hi THEN lo
    ELSE LET mid == (lo + hi + 1) \div 2
         IN  IF mid * mid <= n THEN SqrtSearch(n, mid, hi)
             ELSE SqrtSearch(n, lo, mid - 1)

\* floor of the square root
ISqrt(n) == SqrtSearch(n, 0, Min(n, 46340))

(* ----------------------- engine/tilemap.py: noise ----------------------- *)

\* width of the integer hash: Python computes it on unbounded integers and
\* masks the result to 32 bits; the model keeps 15 bits at every step.
HashMod == 32 * 1024

RECURSIVE BitXor(_, _)
BitXor(a, b) ==
    IF a = 0 THEN b
    ELSE IF b = 0 THEN a
    ELSE ((a + b) % 2) + 2 * BitXor(a \div 2, b \div 2)

ShiftRight(n, k) == n \div (2 ^ k)

\* TileMap._pseudo_random: value in [0, NoiseOne]
PseudoRandom(x, y, seed) ==
    LET n0 == ((x % HashMod) * (374761393 % HashMod)
               + (y % HashMod) * (668265263 % HashMod)
               + (seed % HashMod) * (1446648777 % HashMod)) % HashMod
        n1 == (BitXor(n0, ShiftRight(n0, 13)) * (1274126177 % HashMod)) % HashMod
        n2 == BitXor(n1, ShiftRight(n1, 16))
        n3 == n2 % HashMod
    IN  (n3 * NoiseOne) \div (HashMod - 1)

\* TileMap._fade: t^3 (t (6 t - 15) + 10)
Fade(t) ==
    LET inner == (t * (6 * t - 15 * NoiseOne)) \div NoiseOne + 10 * NoiseOne
        cube == (((t * t) \div NoiseOne) * t) \div NoiseOne
    IN  (cube * inner) \div NoiseOne

\* TileMap._lerp
Lerp(a, b, t) == a + (t * (b - a)) \div NoiseOne

\* TileMap._value_noise; x and y in fixed point
ValueNoise(x, y, seed) ==
    LET xi == x \div NoiseOne
        yi == y \div NoiseOne
        xf == x - xi * NoiseOne
        yf == y - yi * NoiseOne
        top_left == PseudoRandom(xi, yi, seed)
        top_right == PseudoRandom(xi + 1, yi, seed)
        bottom_left == PseudoRandom(xi, yi + 1, seed)
        bottom_right == PseudoRandom(xi + 1, yi + 1, seed)
        u == Fade(xf)
        v == Fade(yf)
        top == Lerp(top_left, top_right, u)
        bottom == Lerp(bottom_left, bottom_right, u)
    IN  Lerp(top, bottom, v)

RECURSIVE FractalLoop(_, _, _, _, _, _, _, _, _, _)
FractalLoop(x, y, seed, octave, octaves, persistence, lacunarity, amplitude, frequency, acc) ==
    IF octave >= octaves THEN acc
    ELSE LET sample_x == x * frequency
             sample_y == y * frequency
             noise == ValueNoise(sample_x, sample_y, seed + octave * 1013)
         IN  FractalLoop(x, y, seed, octave + 1, octaves, persistence, lacunarity,
                         (amplitude * persistence) \div NoiseOne,
                         (frequency * lacunarity) \div NoiseOne,
                         [total |-> acc.total + (noise * amplitude) \div NoiseOne,
                          max_amplitude |-> acc.max_amplitude + amplitude])

\* TileMap._fractal_noise_2d; x, y tile coordinates, scale, persistence and
\* lacunarity in fixed point
FractalNoise2d(x, y, scale, seed, octaves, persistence, lacunarity) ==
    LET acc == FractalLoop(x, y, seed, 0, octaves, persistence, lacunarity,
                           NoiseOne, (NoiseOne * NoiseOne) \div scale,
                           [total |-> 0, max_amplitude |-> 0])
    IN  IF acc.max_amplitude = 0 THEN 0
        ELSE Max(0, Min(NoiseOne, (acc.total * NoiseOne) \div acc.max_amplitude))


(* ------------------ engine/tilemap.py: classification ------------------- *)

\* thresholds of TileMap._terrain_from_values, in thousandths
WaterLevel == 320
BeachLevel == 370
HillLevel == 680
MountainLevel == 820

Terrains == {"water", "sand", "grass", "dirt", "rock"}
Resources == {"tree", "rock", "bush"}
ObstructingBlocks == {"wood_block", "stone_block", "campfire"}

\* _terrain_from_values with a meadow on wet summits: grass above 0.9 when
\* moisture is over 0.65
TerrainFromValuesMeadow(height, moisture) ==
    IF height < WaterLevel THEN <<"water", FALSE>>
    ELSE IF height < BeachLevel THEN <<"sand", TRUE>>
    ELSE IF height < HillLevel
         THEN <<(IF moisture >= 450 THEN "grass" ELSE "dirt"), TRUE>>
    ELSE IF height < MountainLevel
         THEN <<(IF moisture >= 500 THEN "dirt" ELSE "rock"), TRUE>>
    ELSE IF height > 900 /\ moisture > 650 THEN <<"grass", TRUE>>
    ELSE <<"rock", TRUE>>

\* TileMap._terrain_from_values: <<terrain, walkable>>
TerrainFromValues(height, moisture) ==
    IF height < WaterLevel THEN <<"water", FALSE>>
    ELSE IF height < BeachLevel THEN <<"sand", TRUE>>
    ELSE IF height < HillLevel
         THEN <<(IF moisture >= 450 THEN "grass" ELSE "dirt"), TRUE>>
    ELSE IF height < MountainLevel
         THEN <<(IF moisture >= 500 THEN "dirt" ELSE "rock"), TRUE>>
    ELSE <<"rock", TRUE>>

\* random.Random(seed): the generator's stream is private to one generate
\* call.  The Mersenne Twister is modelled by a 15-bit congruential stream:
\* the state after a draw, and the value in [0, NoiseOne) the draw returned.
RngSeed(seed) == seed % HashMod
RngNext(state) == (state * 1103 + 12345) % HashMod
RngValue(state) == (state * NoiseOne) \div HashMod

\* TileMap._maybe_spawn_resource: the resource (or None) and the state of
\* the stream afterwards; `a and rng.random() < b` draws only when a holds.
MaybeSpawnResource(rng, terrain, height, moisture) ==
    LET d1 == RngNext(rng)
    IN  IF terrain = "grass" THEN
            LET first == moisture > 600
                s1 == IF first THEN d1 ELSE rng
                s2 == RngNext(s1)
            IN  IF first /\ RngValue(d1) < 50 + (250 * moisture) \div NoiseOne
                THEN [resource |-> "tree", rng |-> d1]
                ELSE IF moisture > 450
                THEN IF RngValue(s2) < 80 + (120 * moisture) \div NoiseOne
                     THEN [resource |-> "bush", rng |-> s2]
                     ELSE [resource |-> None, rng |-> s2]
                ELSE [resource |-> None, rng |-> s1]
        ELSE IF terrain = "dirt" THEN
            LET first == moisture > 650
                s1 == IF first THEN d1 ELSE rng
                s2 == RngNext(s1)
            IN  IF first /\ RngValue(d1) < 40 + (100 * (moisture - 650)) \div NoiseOne
                THEN [resource |-> "tree", rng |-> d1]
                ELSE IF 450 < moisture /\ moisture < 700
                THEN IF RngValue(s2) < 60
                     THEN [resource |-> "bush", rng |-> s2]
                     ELSE [resource |-> None, rng |-> s2]
                ELSE [resource |-> None, rng |-> s1]
        ELSE IF terrain = "rock" THEN
            LET rock_chance == 80 + (Max(0, height - 750) * 300) \div NoiseOne
            IN  IF RngValue(d1) < Min(250, rock_chance)
                THEN [resource |-> "rock", rng |-> d1]
                ELSE [resource |-> None, rng |-> d1]
        ELSE [resource |-> None, rng |-> rng]

\* class Tile
Tile(terrain, walkable, resource, block) ==
    [terrain |-> terrain, walkable |-> walkable, resource |-> resource, block |-> block]

Coords(w, h) == (0 .. w - 1) \X (0 .. h - 1)

\* TileMap.__init__: every tile is walkable grass
EmptyMap(w, h) == [c \in Coords(w, h) |-> Tile("grass", TRUE, None, None)]

\* the body of TileMap.generate's loop for the tile with row-major index i
RECURSIVE GenerateLoop(_, _, _, _, _, _)
GenerateLoop(i, w, h, seed, rng, acc) ==
    IF i >= w * h THEN acc
    ELSE LET x == i % w
             y == i \div w
             base_dimension == Max(1, Max(w, h))
             height_scale == Max(8 * NoiseOne, base_dimension * 700)
             moisture_scale == Max(6 * NoiseOne, base_dimension * 550)
             height_seed == seed * 977 + 101
             moisture_seed == seed * 1373 + 421
             height_val == FractalNoise2d(x, y, height_scale, height_seed,
                                          5, 500, 2000)
             moisture_val == FractalNoise2d(x, y, moisture_scale, moisture_seed,
                                            4, 600, 2100)
             tw == TerrainFromValues(height_val, moisture_val)
             spawn == MaybeSpawnResource(rng, tw[1], height_val, moisture_val)
         IN  GenerateLoop(i + 1, w, h, seed, spawn.rng,
                          [acc EXCEPT ![<<x, y>>] =
                              Tile(tw[1], tw[2], spawn.resource, None)])

\* TileMap.generate(seed) whose resource rolls come from the shared generator
TileMapGenerateShared(t, w, h, seed, shared) ==
    GenerateLoop(0, w, h, seed, RngSeed(seed + shared), t)

\* TileMap.generate(seed) on a map that holds the tiles t, while the
\* module-level generator of random is in the state shared: every tile is
\* replaced, the rolls come from random.Random(seed)
TileMapGenerate(t, w, h, seed, shared) ==
    GenerateLoop(0, w, h, seed, RngSeed(seed), t)

\* TileMap.generate(seed) on a new w x h map
Generate(w, h, seed) == GenerateLoop(0, w, h, seed, RngSeed(seed), EmptyMap(w, h))


(* --------------------- engine/tilemap.py: queries ----------------------- *)

\* TileMap.get: self.tiles[y][x] on lists of height rows and width columns.
\* An index from -length to -1 counts from the end, one beyond either end
\* raises IndexError; at is the tile returned
TileMapGet(w, h, x, y) ==
    IF x < -w \/ x >= w \/ y < -h \/ y >= h
    THEN [raised |-> TRUE, at |-> <<x, y>>]
    ELSE [raised |-> FALSE, at |-> <<x % w, y % h>>]

\* TileMap.in_bounds
InBounds(w, h, x, y) == 0 <= x /\ x < w /\ 0 <= y /\ y < h

\* TileMap.is_walkable
IsWalkable(t, w, h, x, y) ==
    IF ~InBounds(w, h, x, y) THEN FALSE
    ELSE IF t[<<x, y>>].block \in ObstructingBlocks THEN FALSE
    ELSE t[<<x, y>>].walkable

\* TileMap.remove_resource
RemoveResource(t, w, h, x, y) ==
    IF InBounds(w, h, x, y) THEN [t EXCEPT ![<<x, y>>].resource = None] ELSE t

\* a place_block that does not look at the tile's walkable flag: the grid
\* invariant C6 must tell it from the code's
TileMapPlaceBlockAnywhere(t, w, h, x, y, block) ==
    IF ~InBounds(w, h, x, y) THEN [ret |-> FALSE, tiles |-> t]
    ELSE [ret |-> TRUE,
          tiles |-> [t EXCEPT ![<<x, y>>].block = block, ![<<x, y>>].resource = None]]

\* TileMap.place_block: the return value and the tiles afterwards
TileMapPlaceBlock(t, w, h, x, y, block) ==
    IF ~InBounds(w, h, x, y) THEN [ret |-> FALSE, tiles |-> t]
    ELSE IF ~t[<<x, y>>].walkable THEN [ret |-> FALSE, tiles |-> t]
    ELSE [ret |-> TRUE,
          tiles |-> [t EXCEPT ![<<x, y>>].block = block, ![<<x, y>>].resource = None]]

\* a clear_block that puts a new tile in the place of the old one
ClearBlockReset(t, w, h, x, y) ==
    IF InBounds(w, h, x, y) THEN [t EXCEPT ![<<x, y>>] = Tile("grass", TRUE, None, None)]
    ELSE t

\* TileMap.clear_block
ClearBlock(t, w, h, x, y) ==
    IF InBounds(w, h, x, y) THEN [t EXCEPT ![<<x, y>>].block = None] ELSE t

(* ------------------------- engine/isometric.py -------------------------- *)

TILE_WIDTH == 64
TILE_HEIGHT == 32

\* screen coordinates and camera offsets are floats: kept in tenths of a pixel
PixelOne == 2 * 5

\* math.floor of a quotient
FloorDiv(a, b) == IF a >= 0 THEN a \div b ELSE -((-a + b - 1) \div b)

\* grid_to_screen: x and y in steps, the offset in tenths of a pixel, the
\* result in whole pixels (int() truncates towards zero)
GridToScreen(x, y, offset_x, offset_y) ==
    LET iso_x == ((x - y) * (TILE_WIDTH \div 2) * PixelOne) \div Unit
        iso_y == ((x + y) * (TILE_HEIGHT \div 2) * PixelOne) \div Unit
    IN  <<TruncDiv(iso_x + offset_x, PixelOne), TruncDiv(iso_y + offset_y, PixelOne)>>

\* screen_to_grid with int() in place of math.floor
ScreenToGridTruncated(screen_x, screen_y, offset_x, offset_y) ==
    LET dx == screen_x * PixelOne - offset_x
        dy == screen_y * PixelOne - offset_y
    IN  <<TruncDiv(dx * (TILE_HEIGHT \div 2) + dy * (TILE_WIDTH \div 2),
                   TILE_WIDTH * (TILE_HEIGHT \div 2) * PixelOne),
          TruncDiv(dy * (TILE_WIDTH \div 2) - dx * (TILE_HEIGHT \div 2),
                   TILE_WIDTH * (TILE_HEIGHT \div 2) * PixelOne)>>

\* screen_to_grid: screen coordinates in whole pixels; cart_x is
\* (dx / 32 + dy / 16) / 2, that is (16 dx + 32 dy) / 1024, and its floor
\* is taken
ScreenToGrid(screen_x, screen_y, offset_x, offset_y) ==
    LET dx == screen_x * PixelOne - offset_x
        dy == screen_y * PixelOne - offset_y
    IN  <<FloorDiv(dx * (TILE_HEIGHT \div 2) + dy * (TILE_WIDTH \div 2),
                   TILE_WIDTH * (TILE_HEIGHT \div 2) * PixelOne),
          FloorDiv(dy * (TILE_WIDTH \div 2) - dx * (TILE_HEIGHT \div 2),
                   TILE_WIDTH * (TILE_HEIGHT \div 2) * PixelOne)>>

\* World.tile_from_screen: the tile picked, if it is on the map
TileFromScreen(pos, camera_offset) ==
    LET tile == ScreenToGrid(pos[1], pos[2], camera_offset[1], camera_offset[2])
    IN  [found |-> InBounds(GridWidth, GridHeight, tile[1], tile[2]), tile |-> tile]

(* ------------------------ gameplay/inventory.py ------------------------- *)

MAX_STACK_SIZE == 99

Items == {"wood", "stone", "berries"}

\* Inventory.amount
InvAmount(stacks, resource) ==
    IF resource \in DOMAIN stacks THEN stacks[resource] ELSE 0

\* Inventory.add
InvAdd(stacks, resource, amount) ==
    [k \in DOMAIN stacks \cup {resource} |->
        IF k = resource THEN Min(MAX_STACK_SIZE, InvAmount(stacks, resource) + amount)
        ELSE stacks[k]]

\* Inventory.remove that keeps an entry whose count reached zero
InvRemoveKeepZero(stacks, resource, amount) ==
    LET current == InvAmount(stacks, resource)
    IN  IF current < amount THEN [ret |-> FALSE, stacks |-> stacks]
        ELSE [ret |-> TRUE,
              stacks |-> [k \in DOMAIN stacks \cup {resource} |->
                             IF k = resource THEN current - amount ELSE stacks[k]]]

\* Inventory.remove: the return value and the stacks afterwards
InvRemove(stacks, resource, amount) ==
    LET current == InvAmount(stacks, resource)
        new_amount == current - amount
    IN  IF current < amount THEN [ret |-> FALSE, stacks |-> stacks]
        ELSE IF new_amount <= 0
        THEN [ret |-> TRUE,
              stacks |-> [k \in DOMAIN stacks \ {resource} |-> stacks[k]]]
        ELSE [ret |-> TRUE,
              stacks |-> [k \in DOMAIN stacks \cup {resource} |->
                             IF k = resource THEN new_amount ELSE stacks[k]]]

(* ------------------------ gameplay/resources.py ------------------------- *)

\* RESOURCE_DEFINITIONS: yield_item and yield_amount
YieldItem(resource) ==
    IF resource = "tree" THEN "wood"
    ELSE IF resource = "rock" THEN "stone"
    ELSE "berries"

YieldAmount(resource) == IF resource = "bush" THEN 1 ELSE 2

\* BUILDABLE_BLOCKS: the cost of a block, in the dictionary's order
BuildableBlocks == {"wood_block", "stone_block", "campfire"}

BlockCost(block) ==
    IF block = "wood_block" THEN << <<"wood", 1>> >>
    ELSE IF block = "stone_block" THEN << <<"stone", 1>> >>
    ELSE << <<"wood", 2>>, <<"stone", 1>> >>


(* -------------------------- gameplay/world.py --------------------------- *)

\* A world record ws holds what World's interaction helpers read and write:
\* tilemap.tiles, player.inventory.stacks, campfires and message.

\* a harvest_at that leaves the resource on the tile: C7 must tell it from
\* the code's
WorldHarvestAtKeep(ws, x, y, recipient) ==
    IF ~InBounds(GridWidth, GridHeight, x, y) THEN [ret |-> FALSE, world |-> ws]
    ELSE LET tile == ws.tiles[<<x, y>>]
         IN  IF tile.resource = None THEN [ret |-> FALSE, world |-> ws]
             ELSE [ret |-> TRUE,
                   world |-> [ws EXCEPT
                       !.stacks = InvAdd(ws.stacks, YieldItem(tile.resource),
                                         YieldAmount(tile.resource))]]

\* World.harvest_at: the return value and the world afterwards
WorldHarvestAt(ws, x, y, recipient) ==
    IF ~InBounds(GridWidth, GridHeight, x, y) THEN [ret |-> FALSE, world |-> ws]
    ELSE LET tile == ws.tiles[<<x, y>>]
         IN  IF tile.resource = None THEN [ret |-> FALSE, world |-> ws]
             ELSE [ret |-> TRUE,
                   world |-> [ws EXCEPT
                       !.stacks = InvAdd(ws.stacks, YieldItem(tile.resource),
                                         YieldAmount(tile.resource)),
                       !.tiles = [ws.tiles EXCEPT ![<<x, y>>].resource = None],
                       !.message = <<"Gained", YieldAmount(tile.resource),
                                     YieldItem(tile.resource)>>]]

\* harvest_near_player without the return inside the loops: every tile of
\* the neighbourhood is harvested
RECURSIVE HarvestScanAll(_, _, _, _)
HarvestScanAll(ws, px, py, i) ==
    IF i > 8
    THEN [ret |-> FALSE, world |-> [ws EXCEPT !.message = <<"Nothing to collect">>]]
    ELSE LET r == WorldHarvestAt(ws, px + (i % 3) - 1, py + (i \div 3) - 1, "player")
             rest == HarvestScanAll(r.world, px, py, i + 1)
         IN  IF r.ret \/ rest.ret
             THEN [ret |-> TRUE,
                   world |-> [rest.world EXCEPT !.message = <<"Collected resource">>]]
             ELSE rest

WorldHarvestNearPlayerAll(ws, position) ==
    HarvestScanAll(ws, IntTile(position[1]), IntTile(position[2]), 0)

\* the loops of World.harvest_near_player from the neighbour of row-major
\* index i on: dy is i \div 3 - 1 and dx is i % 3 - 1
RECURSIVE HarvestScan(_, _, _, _)
HarvestScan(ws, px, py, i) ==
    IF i > 8
    THEN [ret |-> FALSE, world |-> [ws EXCEPT !.message = <<"Nothing to collect">>]]
    ELSE LET r == WorldHarvestAt(ws, px + (i % 3) - 1, py + (i \div 3) - 1, "player")
         IN  IF r.ret
             THEN [ret |-> TRUE,
                   world |-> [r.world EXCEPT !.message = <<"Collected resource">>]]
             ELSE HarvestScan(r.world, px, py, i + 1)

\* World.harvest_near_player: the return value and the world afterwards
WorldHarvestNearPlayer(ws, position) ==
    HarvestScan(ws, IntTile(position[1]), IntTile(position[2]), 0)

\* the first loop of World.place_block: some resource of the cost is missing
CostMissing(stacks, cost) ==
    \E i \in 1 .. Len(cost) : InvAmount(stacks, cost[i][1]) < cost[i][2]

\* the second loop of World.place_block: remove every resource of the cost
RECURSIVE DeductCost(_, _, _)
DeductCost(stacks, cost, i) ==
    IF i > Len(cost) THEN stacks
    ELSE DeductCost(InvRemove(stacks, cost[i][1], cost[i][2]).stacks, cost, i + 1)

\* a place_block that takes the cost before it looks at the tile: C8 must
\* tell it from the code's
WorldPlaceBlockEager(ws, x, y, block, actor) ==
    IF block \notin BuildableBlocks THEN [ret |-> FALSE, world |-> ws]
    ELSE IF CostMissing(ws.stacks, BlockCost(block))
    THEN [ret |-> FALSE, world |-> ws]
    ELSE LET paid == DeductCost(ws.stacks, BlockCost(block), 1)
         IN  IF ~IsWalkable(ws.tiles, GridWidth, GridHeight, x, y)
             THEN [ret |-> FALSE, world |-> [ws EXCEPT !.stacks = paid]]
             ELSE [ret |-> TRUE,
                   world |-> [ws EXCEPT
                       !.stacks = paid,
                       !.tiles = TileMapPlaceBlock(ws.tiles, GridWidth, GridHeight,
                                                   x, y, block).tiles]]

\* a place_block that checks the cost but never takes it: C13 must tell it
\* from the code's
WorldPlaceBlockFree(ws, x, y, block, actor) ==
    IF block \notin BuildableBlocks THEN [ret |-> FALSE, world |-> ws]
    ELSE IF CostMissing(ws.stacks, BlockCost(block))
    THEN [ret |-> FALSE, world |-> ws]
    ELSE IF ~IsWalkable(ws.tiles, GridWidth, GridHeight, x, y)
    THEN [ret |-> FALSE, world |-> ws]
    ELSE [ret |-> TRUE,
          world |-> [ws EXCEPT
              !.tiles = TileMapPlaceBlock(ws.tiles, GridWidth, GridHeight,
                                          x, y, block).tiles]]

\* World.place_block: the return value and the world afterwards
WorldPlaceBlock(ws, x, y, block, actor) ==
    IF block \notin BuildableBlocks THEN [ret |-> FALSE, world |-> ws]
    ELSE IF CostMissing(ws.stacks, BlockCost(block))
    THEN [ret |-> FALSE,
          world |-> IF actor = "player"
                    THEN [ws EXCEPT !.message = <<"Missing resources">>] ELSE ws]
    ELSE IF ~IsWalkable(ws.tiles, GridWidth, GridHeight, x, y)
    THEN [ret |-> FALSE,
          world |-> IF actor = "player"
                    THEN [ws EXCEPT !.message = <<"Tile not free">>] ELSE ws]
    ELSE LET paid == DeductCost(ws.stacks, BlockCost(block), 1)
             placed == TileMapPlaceBlock(ws.tiles, GridWidth, GridHeight, x, y, block)
         IN  [ret |-> placed.ret,
              world |-> [tiles |-> placed.tiles,
                         stacks |-> paid,
                         campfires |->
                             IF placed.ret /\ block = "campfire"
                             THEN Append(ws.campfires,
                                         <<x * Unit + Unit \div 2, y * Unit + Unit \div 2>>)
                             ELSE ws.campfires,
                         message |-> IF placed.ret THEN <<"Placed", block>>
                                     ELSE ws.message]]

(* -------------------------- engine/entities.py -------------------------- *)

\* squared length of a vector, in squared steps
Len2(v) == v[1] * v[1] + v[2] * v[2]

VecAdd(a, b) == <<a[1] + b[1], a[2] + b[2]>>
VecSub(a, b) == <<a[1] - b[1], a[2] - b[2]>>

\* Vector2.scale_to_length on a non-zero vector: each component is
\* v * length / |v|, with |v| taken to a hundredth of a step and the
\* quotient truncated
ScaleToLength(v, length) ==
    LET len100 == ISqrt(Len2(v) * 10000)
    IN  <<TruncDiv(v[1] * length * 100, len100), TruncDiv(v[2] * length * 100, len100)>>

\* Entity.move_towards(target, speed, dt), with step = speed * dt in steps:
\* the position afterwards and the (squared) distance it returns.
\* distance < 1e-3 is distance = 0 at this resolution.
MoveTowards(position, target, step) ==
    LET direction == VecSub(target, position)
        distance2 == Len2(direction)
    IN  IF distance2 = 0 THEN [position |-> target, distance2 |-> distance2]
        ELSE IF step * step >= distance2
        THEN [position |-> VecAdd(position, direction), distance2 |-> distance2]
        ELSE [position |-> VecAdd(position, ScaleToLength(direction, step)),
              distance2 |-> distance2]

(* ------------------------- engine/constants.py -------------------------- *)

\* speeds in tenths of a tile per second, hunger in points (per minute)
PLAYER_MOVE_SPEED == 35
ANIMAL_MOVE_SPEED == 30
PLAYER_HUNGER_DECAY == 3
ANIMAL_HUNGER_DECAY == 4

\* speed * dt in steps, for dt in tenths of a second
StepLength(speed, dt) == (speed * dt * Unit) \div 100

\* DECAY / 60.0 * dt in hunger units
Drain(decay, dt) == (decay * dt * HungerOne) \div 600

FullHunger == 100 * HungerOne


(* -------------------------- gameplay/animal.py -------------------------- *)

\* 0.1, 0.2 and 1.8 tiles, in steps
GotoReach == (Unit * 1) \div 10
TakeReach == (Unit * 2) \div 10
PlaceReach == (Unit * 2) \div 10
FollowDistance == (Unit * 18) \div 10

\* a command dictionary {type, target, block}; block is None when the key
\* is absent.  id numbers the commands in the order of their enqueuing; it
\* is carried along to observe the queue and is read by no operation.
Command(type, target, block, id) ==
    [type |-> type, target |-> target, block |-> block, id |-> id]

\* active_command = None
NoCommand == Command(None, <<0, 0>>, None, 0)

\* Animal._idle_follow that walks to the follow point on every idle tick
IdleFollowAlways(position, player_position, dt) ==
    MoveTowards(position, VecAdd(player_position, <<-Unit, 0>>),
                StepLength(ANIMAL_MOVE_SPEED, dt)).position

\* Animal._idle_follow: the position afterwards
IdleFollow(position, player_position, dt) ==
    LET target == VecAdd(player_position, <<-Unit, 0>>)
    IN  IF Len2(VecSub(target, position)) > FollowDistance * FollowDistance
        THEN MoveTowards(position, target, StepLength(ANIMAL_MOVE_SPEED, dt)).position
        ELSE position

\* the world call a command makes once within reach, for the observer
NoCall == [made |-> FALSE, ret |-> FALSE]
Call(ret) == [made |-> TRUE, ret |-> ret]

\* commands that stay active until their world call succeeds: C9 and C10
\* must tell them from the code's
RetryUntilHarvested(harvested) == harvested
RetryUntilPlaced(placed) == placed

\* Animal._process_command, lines 55 and 63: once within reach the command
\* is finished, whatever harvest_at or place_block returned
FinishedAfterTake(harvested) == TRUE
FinishedAfterPlace(placed) == TRUE

\* Animal._process_command for the active command: whether it finished, the
\* position and the world afterwards, the (squared) distance move_towards
\* returned (-1 when it was not called), and the world call it made
ProcessCommand(ws, position, command, dt) ==
    LET moved == MoveTowards(position, command.target, StepLength(ANIMAL_MOVE_SPEED, dt))
        tx == IntTile(command.target[1])
        ty == IntTile(command.target[2])
    IN  IF command.type = "goto"
        THEN [finished |-> moved.distance2 <= GotoReach * GotoReach,
              position |-> moved.position, world |-> ws,
              distance2 |-> moved.distance2, call |-> NoCall]
        ELSE IF command.type = "take"
        THEN IF moved.distance2 <= TakeReach * TakeReach
             THEN LET h == WorldHarvestAt(ws, tx, ty, "player")
                  IN  [finished |-> FinishedAfterTake(h.ret), position |-> moved.position,
                       world |-> h.world,
                       distance2 |-> moved.distance2, call |-> Call(h.ret)]
             ELSE [finished |-> FALSE, position |-> moved.position, world |-> ws,
                   distance2 |-> moved.distance2, call |-> NoCall]
        ELSE IF command.type = "place"
        THEN IF moved.distance2 <= PlaceReach * PlaceReach
             THEN LET block == IF command.block = None THEN "wood_block"
                               ELSE command.block
                      b == WorldPlaceBlock(ws, tx, ty, block, "animal")
                  IN  [finished |-> FinishedAfterPlace(b.ret), position |-> moved.position,
                       world |-> b.world,
                       distance2 |-> moved.distance2, call |-> Call(b.ret)]
             ELSE [finished |-> FALSE, position |-> moved.position, world |-> ws,
                   distance2 |-> moved.distance2, call |-> NoCall]
        ELSE [finished |-> TRUE, position |-> position, world |-> ws,
              distance2 |-> -1, call |-> NoCall]

\* a pop that reads the first pending command and leaves it in the queue
PopCommandPeek(pending) == [command |-> Head(pending), rest |-> pending]

\* Animal.update, line 27: pending_commands.pop(0)
PopCommand(pending) == [command |-> Head(pending), rest |-> Tail(pending)]

\* Animal.update: the animal and the world afterwards; `ran` is the command
\* that was active during the tick (NoCommand on an idle tick), `took` tells
\* whether it was dequeued in this tick, `call` the world call it made.
AnimalUpdate(ws, an, player_position, dt) ==
    LET take == an.active_command = NoCommand /\ an.pending_commands # <<>>
        active == IF take THEN PopCommand(an.pending_commands).command
                  ELSE an.active_command
        pending == IF take THEN PopCommand(an.pending_commands).rest
                   ELSE an.pending_commands
        hunger == Max(0, an.hunger - Drain(ANIMAL_HUNGER_DECAY, dt))
    IN  IF active # NoCommand
        THEN LET p == ProcessCommand(ws, an.position, active, dt)
             IN  [animal |-> [position |-> p.position, hunger |-> hunger,
                              pending_commands |-> pending,
                              active_command |-> IF p.finished THEN NoCommand
                                                 ELSE active],
                  world |-> p.world,
                  ran |-> active, took |-> take, finished |-> p.finished,
                  distance2 |-> p.distance2, call |-> p.call]
        ELSE [animal |-> [position |-> IdleFollow(an.position, player_position, dt),
                          hunger |-> hunger,
                          pending_commands |-> pending,
                          active_command |-> NoCommand],
              world |-> ws,
              ran |-> NoCommand, took |-> FALSE, finished |-> FALSE,
              distance2 |-> -1, call |-> NoCall]

\* a queue that takes new commands at its front: the order property C1 must
\* tell it from the code's
EnqueueSequenceFront(an, commands) ==
    [an EXCEPT !.pending_commands = commands \o an.pending_commands]

\* Animal.enqueue_sequence
EnqueueSequence(an, commands) ==
    [an EXCEPT !.pending_commands = an.pending_commands \o commands]

\* plain data: JSON null, and a JSON list of two numbers
Null == [json |-> "null"]
ListOf(pair) == [list |-> pair]

\* Animal._serialise_command: a copy whose target is a list of two floats
SerialiseCommand(command) ==
    IF command = NoCommand THEN Null
    ELSE [command EXCEPT !.target = ListOf(@)]

\* Animal._deserialise_command: a copy whose target is a tuple of two floats
DeserialiseCommand(command) ==
    [command EXCEPT !.target = @.list]

\* Animal.to_dict
AnimalToDict(a) ==
    [position |-> ListOf(a.position),
     hunger |-> a.hunger,
     pending_commands |-> [i \in 1 .. Len(a.pending_commands) |->
                              SerialiseCommand(a.pending_commands[i])],
     active_command |-> SerialiseCommand(a.active_command)]

\* Animal.from_dict that forgets the command in progress
AnimalFromDictIdle(data) ==
    [position |-> data.position.list,
     hunger |-> data.hunger,
     pending_commands |-> [i \in 1 .. Len(data.pending_commands) |->
                              DeserialiseCommand(data.pending_commands[i])],
     active_command |-> NoCommand]

\* Animal.from_dict, of the data to_dict produces
AnimalFromDict(data) ==
    [position |-> data.position.list,
     hunger |-> data.hunger,
     pending_commands |-> [i \in 1 .. Len(data.pending_commands) |->
                              DeserialiseCommand(data.pending_commands[i])],
     active_command |-> IF data.active_command # Null
                        THEN DeserialiseCommand(data.active_command)
                        ELSE NoCommand]

(* -------------------------- gameplay/player.py -------------------------- *)

Directions == {"up", "down", "left", "right"}

\* the move vector Player.update reads from the held keys
MoveOf(keys) ==
    <<(IF "right" \in keys THEN 1 ELSE 0) - (IF "left" \in keys THEN 1 ELSE 0),
      (IF "down" \in keys THEN 1 ELSE 0) - (IF "up" \in keys THEN 1 ELSE 0)>>

\* the centre of the tile that holds a point
TileCentre(v) ==
    <<FloorTile(v[1]) * Unit + Unit \div 2, FloorTile(v[2]) * Unit + Unit \div 2>>

\* Player.update, lines 42-48: the free move towards the held direction
PlayerFreeMove(position, tiles, move, step) ==
    IF Len2(move) > 0
    THEN LET proposed == VecAdd(position, ScaleToLength(move, step))
             tile_x == FloorTile(proposed[1])
             tile_y == FloorTile(proposed[2])
         IN  IF InBounds(GridWidth, GridHeight, tile_x, tile_y)
                /\ IsWalkable(tiles, GridWidth, GridHeight, tile_x, tile_y)
             THEN proposed ELSE position
    ELSE position

\* Player.update, lines 52-74: the target tile after the keys are read at the
\* target.  movement_epsilon (1e-4) is zero at this resolution.
PlayerNextTarget(target_tile, tiles, move) ==
    IF Len2(move) > 0
    THEN LET desired_tile == VecAdd(target_tile, <<move[1] * Unit, move[2] * Unit>>)
             target_centre == TileCentre(desired_tile)
         IN  IF target_centre # target_tile
                /\ IsWalkable(tiles, GridWidth, GridHeight,
                              IntTile(target_centre[1]), IntTile(target_centre[2]))
             THEN target_centre ELSE target_tile
    ELSE target_tile

\* Player.update, lines 76-87: the step towards the target tile
PlayerStep(position, target_tile, step) ==
    IF Len2(VecSub(position, target_tile)) > 0
    THEN LET direction == VecSub(target_tile, position)
         IN  IF Len2(direction) <= step * step THEN target_tile
             ELSE VecAdd(position, ScaleToLength(direction, step))
    ELSE position

\* Player.update, lines 91-95: the clamp to the grid; width - 1e-3 is the
\* last step below width at this resolution
PlayerClamp(position) ==
    <<Min(Max(position[1], 0), Max(0, GridWidth * Unit - 1)),
      Min(Max(position[2], 0), Max(0, GridHeight * Unit - 1))>>

\* Player.update
PlayerUpdate(pl, tiles, keys, dt) ==
    LET move == MoveOf(keys)
        step == StepLength(PLAYER_MOVE_SPEED, dt)
        freed == PlayerFreeMove(pl.position, tiles, move, step)
        at_target == Len2(VecSub(freed, pl.target_tile)) <= 0
        snapped == IF at_target THEN pl.target_tile ELSE freed
        target == IF at_target THEN PlayerNextTarget(pl.target_tile, tiles, move)
                  ELSE pl.target_tile
        stepped == PlayerStep(snapped, target, step)
    IN  [position |-> PlayerClamp(stepped),
         target_tile |-> target,
         hunger |-> Max(0, pl.hunger - Drain(PLAYER_HUNGER_DECAY, dt)),
         selected_block |-> pl.selected_block,
         is_moving |-> Len2(VecSub(stepped, target)) > 0]

\* Player.__init__
NewPlayer(position) ==
    [position |-> TileCentre(position), target_tile |-> TileCentre(position),
     hunger |-> FullHunger, selected_block |-> "wood_block", is_moving |-> FALSE]

\* Animal.__init__
NewAnimal(position) ==
    [position |-> position, hunger |-> FullHunger,
     pending_commands |-> <<>>, active_command |-> NoCommand]


(* ------------------------------- state ---------------------------------- *)

VARIABLES
    tiles,        \* world.tilemap.tiles: <<x, y>> -> Tile
    stacks,       \* world.player.inventory.stacks: resource -> count
    campfires,    \* world.campfires
    message,      \* world.message
    player,       \* world.player
    animal,       \* world.animal
    clock,        \* ticks and calls made so far
    next_id,      \* commands enqueued so far
    activated,    \* ids of the commands, in the order they became active
    invoked,      \* id -> world calls (harvest_at, place_block) made for it
    obs,          \* the last operation: its name, arguments, result, and the
                  \* world it started from
    sent,         \* the command sequence whose run is followed, once enqueued
    menu,         \* the CommandMenu: visible, pending, sequence
    app           \* main's state and the save slot's file

vars == <<tiles, stacks, campfires, message, player, animal, clock, next_id,
          activated, invoked, obs, sent, menu, app>>

\* what the simulation itself never touches
aside == <<sent, menu, app>>

WorldState ==
    [tiles |-> tiles, stacks |-> stacks, campfires |-> campfires, message |-> message]

EmptyStacks == [k \in {} |-> 0]

NoMessage == <<>>

\* seeds of the generated maps: World.__init__ calls generate() without a
\* seed, which draws one from the global generator
Seeds == {1237}

SpawnTile == <<GridWidth \div 2, GridHeight \div 2>>

Observation(op, args, ret, pre, ran, took, finished, distance2, call) ==
    [op |-> op, args |-> args, ret |-> ret, pre |-> pre,
     ran |-> ran, took |-> took, finished |-> finished, distance2 |-> distance2,
     call |-> call]

NoArgs == <<0, 0, None, None>>

\* the observation of a tick keeps no copy of the world
NoWorld == [tiles |-> <<>>, stacks |-> EmptyStacks, campfires |-> <<>>, message |-> NoMessage]

\* the ids commands can carry: a sequence of three is always possible
CommandIds == 1 .. Max(MaxCommands, 3)

\* CommandMenu.__init__
NewMenu == [visible |-> FALSE, pending |-> None, sequence |-> <<>>]

\* a save slot with no file
NoFile == [kind |-> "absent"]

\* World.__init__, in main's game state
Init ==
    \E seed \in Seeds :
        /\ tiles = Generate(GridWidth, GridHeight, seed)
        /\ stacks = EmptyStacks
        /\ campfires = <<>>
        /\ message = NoMessage
        /\ player = NewPlayer(<<SpawnTile[1] * Unit + Unit \div 2,
                                SpawnTile[2] * Unit + Unit \div 2>>)
        /\ animal = NewAnimal(<<(SpawnTile[1] + 2) * Unit,
                                SpawnTile[2] * Unit + Unit \div 2>>)
        /\ clock = 0
        /\ next_id = 0
        /\ activated = <<>>
        /\ invoked = [i \in CommandIds |-> 0]
        /\ sent = <<>>
        /\ menu = NewMenu
        /\ app = [state |-> "game", file |-> NoFile, outcome |-> None, random |-> 0]
        /\ obs = Observation("init", NoArgs, FALSE, NoWorld,
                             NoCommand, FALSE, FALSE, -1, NoCall)

(* ------------------------------- inputs --------------------------------- *)

\* tick lengths, in tenths of a second: a short and a long frame, and for
\* Player.update also a tick shorter than one step of the model
TickLengths == {1, MaxDt}
PlayerTickLengths == {0} \cup TickLengths

HeldKeys == SUBSET Directions

\* the tiles the commands explored address: on the 5 x 2 map of seed 1237
\* a water tile, the tile of a tree, the companion's own tile, and a tile
\* beyond the right edge of the grid
TargetTiles == {<<2, 0>>, <<4, 0>>, <<4, 1>>, <<GridWidth, 0>>}

\* CommandMenu.handle_event, line 82: the target is the centre of the tile
TargetOf(tile) == <<tile[1] * Unit + Unit \div 2, tile[2] * Unit + Unit \div 2>>

\* the commands offered to enqueue_sequence, numbered from id
CommandChoices(id) ==
    {Command("goto", TargetOf(t), None, id) : t \in TargetTiles}
    \cup {Command("take", TargetOf(t), None, id) : t \in TargetTiles}
    \cup {Command("place", TargetOf(t), b, id) :
              t \in TargetTiles, b \in {None, "stone_block"}}
    \cup {Command("dance", <<0, 0>>, None, id)}

(* ------------------------------ operations ------------------------------ *)

\* the bookkeeping of one Animal.update, from its result r
Observed(r) ==
    /\ activated' = IF r.took THEN Append(activated, r.ran.id) ELSE activated
    /\ invoked' = IF r.call.made
                  THEN [invoked EXCEPT ![r.ran.id] = @ + 1] ELSE invoked

\* world.animal.enqueue_sequence(commands), one or two commands
Enqueue ==
    /\ \E first \in CommandChoices(next_id + 1) :
          \/ /\ next_id + 1 <= MaxCommands
             /\ animal' = EnqueueSequence(animal, <<first>>)
             /\ next_id' = next_id + 1
          \/ /\ next_id + 2 <= MaxCommands
             /\ \E second \in CommandChoices(next_id + 2) :
                   animal' = EnqueueSequence(animal, <<first, second>>)
             /\ next_id' = next_id + 2
    /\ obs' = Observation("enqueue_sequence", NoArgs, FALSE, NoWorld,
                          NoCommand, FALSE, FALSE, -1, NoCall)
    /\ UNCHANGED <<tiles, stacks, campfires, message, player, clock, activated, invoked>>
    /\ UNCHANGED aside

\* world.animal.update(world, dt), while fewer than `ticks` ticks were made
AnimalTickWithin(ticks) ==
    /\ clock < ticks
    /\ \E dt \in TickLengths :
          \E r \in {AnimalUpdate(WorldState, animal, player.position, dt)} :
              /\ animal' = r.animal
              /\ tiles' = r.world.tiles
              /\ stacks' = r.world.stacks
              /\ campfires' = r.world.campfires
              /\ message' = r.world.message
              /\ Observed(r)
              /\ obs' = Observation("animal.update", NoArgs, FALSE, NoWorld,
                                    r.ran, r.took, r.finished, r.distance2, r.call)
    /\ clock' = clock + 1
    /\ UNCHANGED <<player, next_id>>
    /\ UNCHANGED aside

AnimalTick == AnimalTickWithin(MaxTicks)

\* world.player.update(keys, tilemap, dt)
PlayerTickWithin(ticks) ==
    /\ clock < ticks
    /\ \E keys \in HeldKeys, dt \in PlayerTickLengths :
          player' = PlayerUpdate(player, tiles, keys, dt)
    /\ clock' = clock + 1
    /\ obs' = Observation("player.update", NoArgs, FALSE, NoWorld,
                          NoCommand, FALSE, FALSE, -1, NoCall)
    /\ UNCHANGED <<tiles, stacks, campfires, message, animal, next_id, activated, invoked>>
    /\ UNCHANGED aside

PlayerTick == PlayerTickWithin(MaxTicks)

\* World.update(dt, keys): the player, then the animal
WorldTick ==
    /\ clock < MaxFrames
    /\ \E keys \in HeldKeys, dt \in PlayerTickLengths :
          \E pl \in {PlayerUpdate(player, tiles, keys, dt)} :
          \E r \in {AnimalUpdate(WorldState, animal, pl.position, dt)} :
              /\ player' = pl
              /\ animal' = r.animal
              /\ tiles' = r.world.tiles
              /\ stacks' = r.world.stacks
              /\ campfires' = r.world.campfires
              /\ message' = r.world.message
              /\ Observed(r)
              /\ obs' = Observation("world.update", NoArgs, FALSE, NoWorld,
                                    r.ran, r.took, r.finished, r.distance2, r.call)
    /\ clock' = clock + 1
    /\ UNCHANGED next_id
    /\ UNCHANGED aside

\* the coordinates the interaction helpers are called with: the target
\* tiles, and two tiles with a negative coordinate
CallTiles == TargetTiles \cup {<<-1, 0>>, <<2, -1>>}

\* what a call leaves alone besides the world
CallFrame ==
    /\ clock' = clock + 1
    /\ UNCHANGED <<player, animal, next_id, activated, invoked>>
    /\ UNCHANGED aside

\* the world after a call
SetWorld(ws) ==
    /\ tiles' = ws.tiles
    /\ stacks' = ws.stacks
    /\ campfires' = ws.campfires
    /\ message' = ws.message

\* world.harvest_at(x, y)
HarvestAt ==
    /\ clock < MaxCalls
    /\ \E t \in CallTiles :
          \E r \in {WorldHarvestAt(WorldState, t[1], t[2], "player")} :
              /\ SetWorld(r.world)
              /\ obs' = Observation("harvest_at", <<t[1], t[2], None, "player">>, r.ret,
                                    WorldState, NoCommand, FALSE, FALSE, -1, NoCall)
    /\ CallFrame

\* world.place_block(x, y, block, actor)
PlaceBlock ==
    /\ clock < MaxCalls
    /\ \E t \in CallTiles, block \in BuildableBlocks \cup {"torch"},
          actor \in {"player", "animal"} :
          \E r \in {WorldPlaceBlock(WorldState, t[1], t[2], block, actor)} :
              /\ SetWorld(r.world)
              /\ obs' = Observation("place_block", <<t[1], t[2], block, actor>>, r.ret,
                                    WorldState, NoCommand, FALSE, FALSE, -1, NoCall)
    /\ CallFrame

\* world.tilemap.place_block(x, y, block)
TilePlaceBlock ==
    /\ clock < MaxCalls
    /\ \E t \in CallTiles, block \in BuildableBlocks :
          \E r \in {TileMapPlaceBlock(tiles, GridWidth, GridHeight, t[1], t[2], block)} :
              /\ tiles' = r.tiles
              /\ obs' = Observation("tilemap.place_block", <<t[1], t[2], block, None>>,
                                    r.ret, WorldState, NoCommand, FALSE, FALSE, -1, NoCall)
    /\ UNCHANGED <<stacks, campfires, message>>
    /\ CallFrame

\* world.tilemap.clear_block(x, y)
TileClearBlock ==
    /\ clock < MaxCalls
    /\ \E t \in CallTiles :
          /\ tiles' = ClearBlock(tiles, GridWidth, GridHeight, t[1], t[2])
          /\ obs' = Observation("tilemap.clear_block", <<t[1], t[2], None, None>>,
                                FALSE, WorldState, NoCommand, FALSE, FALSE, -1, NoCall)
    /\ UNCHANGED <<stacks, campfires, message>>
    /\ CallFrame

\* world.tilemap.remove_resource(x, y)
TileRemoveResource ==
    /\ clock < MaxCalls
    /\ \E t \in CallTiles :
          /\ tiles' = RemoveResource(tiles, GridWidth, GridHeight, t[1], t[2])
          /\ obs' = Observation("tilemap.remove_resource", <<t[1], t[2], None, None>>,
                                FALSE, WorldState, NoCommand, FALSE, FALSE, -1, NoCall)
    /\ UNCHANGED <<stacks, campfires, message>>
    /\ CallFrame

\* world.tilemap.get(x, y); the observer keeps whether a tile was returned
\* and which
TileGet ==
    /\ clock < MaxCalls
    /\ \E t \in CallTiles :
          \E r \in {TileMapGet(GridWidth, GridHeight, t[1], t[2])} :
              obs' = Observation("tilemap.get", <<t[1], t[2], None, None>>, ~r.raised,
                                 WorldState, NoCommand, FALSE, FALSE, -1,
                                 [made |-> TRUE, ret |-> ~r.raised, at |-> r.at])
    /\ UNCHANGED <<tiles, stacks, campfires, message>>
    /\ CallFrame

\* world.tilemap.is_walkable(x, y)
TileIsWalkable ==
    /\ clock < MaxCalls
    /\ \E t \in CallTiles :
          obs' = Observation("tilemap.is_walkable", <<t[1], t[2], None, None>>,
                             IsWalkable(tiles, GridWidth, GridHeight, t[1], t[2]),
                             WorldState, NoCommand, FALSE, FALSE, -1, NoCall)
    /\ UNCHANGED <<tiles, stacks, campfires, message>>
    /\ CallFrame

\* the seeds a map is generated again with
GenerateSeeds == Seeds \cup {3, 42}

\* the states of the module-level generator of random the model tells apart
SharedStates == 0 .. 2

\* world.tilemap.generate(seed) on the map in use
Regenerate ==
    /\ clock < MaxCalls
    /\ \E seed \in GenerateSeeds :
          /\ tiles' = TileMapGenerate(tiles, GridWidth, GridHeight, seed, app.random)
          /\ obs' = Observation("generate", <<seed, 0, None, None>>, FALSE,
                                WorldState, NoCommand, FALSE, FALSE, -1, NoCall)
    /\ UNCHANGED <<stacks, campfires, message>>
    /\ CallFrame

\* random.random() called elsewhere in the program
RandomUse ==
    /\ clock < MaxCalls
    /\ app' = [app EXCEPT !.random = (@ + 1) % Cardinality(SharedStates)]
    /\ clock' = clock + 1
    /\ obs' = Observation("random", NoArgs, FALSE, NoWorld,
                          NoCommand, FALSE, FALSE, -1, NoCall)
    /\ UNCHANGED <<tiles, stacks, campfires, message, player, animal, next_id,
                   activated, invoked, sent, menu>>

\* the heights and moistures classified: a lattice over [0, 1] and the
\* values next to every threshold of _terrain_from_values
SampleStep == 50
HeightSamples ==
    {i * SampleStep : i \in 0 .. NoiseOne \div SampleStep}
    \cup {WaterLevel - 1, WaterLevel, BeachLevel - 1, BeachLevel,
          HillLevel - 1, HillLevel, MountainLevel - 1, MountainLevel}
MoistureSamples == {0, 449, 450, 499, 500, NoiseOne}

\* TileMap._terrain_from_values called on two heights, each with a moisture,
\* while the map is generated
Classify ==
    /\ clock = 0
    /\ clock' = clock + 1
    /\ \E h1 \in HeightSamples, h2 \in HeightSamples,
          m1 \in MoistureSamples, m2 \in MoistureSamples :
          obs' = Observation("terrain_from_values", <<h1, h2, m1, m2>>, FALSE,
                             NoWorld, NoCommand, FALSE, FALSE, -1,
                             [made |-> TRUE, ret |-> TRUE,
                              first |-> TerrainFromValues(h1, m1),
                              second |-> TerrainFromValues(h2, m2)])
    /\ UNCHANGED <<tiles, stacks, campfires, message, player, animal,
                   next_id, activated, invoked>>
    /\ UNCHANGED aside

\* the tiles whose centre is projected, on the map and around it, and the
\* camera offsets, whole and fractional, in tenths of a pixel
PickedTiles == (-3 .. GridWidth + 1) \X (-3 .. GridHeight + 1)
CameraOffsets == {-6405, -17, 0, 5, 13, 3600, 6400}

\* the centre of a tile projected with grid_to_screen, then picked with
\* world.tile_from_screen under the same camera offset
PickCentre ==
    /\ clock = 0
    /\ clock' = clock + 1
    /\ \E t \in PickedTiles, ox \in CameraOffsets, oy \in CameraOffsets :
          \E pos \in {GridToScreen(TargetOf(t)[1], TargetOf(t)[2], ox, oy)} :
              obs' = Observation("tile_from_screen", <<t[1], t[2], ox, oy>>, FALSE,
                                 NoWorld, NoCommand, FALSE, FALSE, -1,
                                 [made |-> TRUE, ret |-> TRUE,
                                  grid |-> ScreenToGrid(pos[1], pos[2], ox, oy),
                                  picked |-> TileFromScreen(pos, <<ox, oy>>)])
    /\ UNCHANGED <<tiles, stacks, campfires, message, player, animal,
                   next_id, activated, invoked>>
    /\ UNCHANGED aside

\* world.harvest_near_player(); the observation keeps the player's tile
HarvestNearPlayer ==
    /\ clock < MaxTicks
    /\ \E r \in {WorldHarvestNearPlayer(WorldState, player.position)} :
          /\ SetWorld(r.world)
          /\ obs' = Observation("harvest_near_player",
                                <<IntTile(player.position[1]), IntTile(player.position[2]),
                                  None, None>>,
                                r.ret, WorldState, NoCommand, FALSE, FALSE, -1, NoCall)
    /\ CallFrame

\* the seeds generate() draws for a new world
WorldSeeds == 0 .. 7

\* self.tilemap.generate() on the new TileMap(*size), for each seed
CreatedMaps == [seed \in WorldSeeds |-> Generate(GridWidth, GridHeight, seed)]

\* World.__init__: a generated map, the player at the centre of the middle
\* tile and the companion two tiles to its right
NewWorld ==
    /\ clock < MaxCalls
    /\ \E seed \in WorldSeeds :
          /\ tiles' = CreatedMaps[seed]
          /\ obs' = Observation("world.__init__", <<seed, 0, None, None>>, FALSE, NoWorld,
                                NoCommand, FALSE, FALSE, -1, NoCall)
    /\ stacks' = EmptyStacks
    /\ campfires' = <<>>
    /\ message' = NoMessage
    /\ player' = NewPlayer(<<SpawnTile[1] * Unit + Unit \div 2,
                             SpawnTile[2] * Unit + Unit \div 2>>)
    /\ animal' = NewAnimal(<<(SpawnTile[1] + 2) * Unit,
                             SpawnTile[2] * Unit + Unit \div 2>>)
    /\ clock' = clock + 1
    /\ UNCHANGED <<next_id, activated, invoked>>
    /\ UNCHANGED aside

\* the main loop calls player.update on every frame with the same keys held:
\* the first frame chooses keys whose neighbouring tile is walkable, the
\* later frames repeat them; every frame has dt > 0
HoldTick ==
    /\ clock < MaxHoldTicks
    /\ \E keys \in HeldKeys, dt \in TickLengths :
          /\ MoveOf(keys) # <<0, 0>>
          /\ IF obs.op = "player.hold"
             THEN keys = obs.call.keys
             ELSE IsWalkable(tiles, GridWidth, GridHeight,
                             FloorTile(player.target_tile[1] + MoveOf(keys)[1] * Unit),
                             FloorTile(player.target_tile[2] + MoveOf(keys)[2] * Unit))
          /\ \E pl \in {PlayerUpdate(player, tiles, keys, dt)} : player' = pl
          /\ obs' = Observation("player.hold",
                                <<MoveOf(keys)[1], MoveOf(keys)[2], None, None>>,
                                FALSE, NoWorld, NoCommand, FALSE, FALSE, -1,
                                [made |-> TRUE, ret |-> FALSE, keys |-> keys])
    /\ clock' = clock + 1
    /\ UNCHANGED <<tiles, stacks, campfires, message, animal, next_id, activated, invoked>>
    /\ UNCHANGED aside

\* enqueue_sequence before the first tick: the finite sequence to run
EnqueueFirst == clock = 0 /\ Enqueue

\* whether the companion has a command active or pending
Busy(an) == an.active_command # NoCommand \/ an.pending_commands # <<>>

\* Animal.update repeated while the companion has work, with no further
\* enqueue
RunTick == Busy(animal) /\ AnimalTickWithin(MaxRunTicks)

\* world.player.inventory.add(resource, amount): what the player gathered
\* elsewhere, one or two units or a full stack
InventoryAdd ==
    /\ clock < MaxCalls
    /\ \E resource \in Items, amount \in {1, 2, MAX_STACK_SIZE} :
          /\ stacks' = InvAdd(stacks, resource, amount)
          /\ obs' = Observation("inventory.add", <<amount, 0, resource, None>>,
                                FALSE, WorldState, NoCommand, FALSE, FALSE, -1, NoCall)
    /\ UNCHANGED <<tiles, campfires, message>>
    /\ CallFrame

\* world.player.inventory.remove(resource, amount): one or two units or a
\* full stack
InventoryRemove ==
    /\ clock < MaxCalls
    /\ \E resource \in Items, amount \in {1, 2, MAX_STACK_SIZE} :
          \E r \in {InvRemove(stacks, resource, amount)} :
              /\ stacks' = r.stacks
              /\ obs' = Observation("inventory.remove", <<amount, 0, resource, None>>,
                                    r.ret, WorldState, NoCommand, FALSE, FALSE, -1, NoCall)
    /\ UNCHANGED <<tiles, campfires, message>>
    /\ CallFrame

\* the amounts of a call made in error: zero and negative
ErrorAmounts == {0, -1, -2}

\* world.player.inventory.add(resource, amount) with a zero or negative amount
InventoryAddInError ==
    /\ clock < MaxCalls
    /\ \E resource \in Items, amount \in ErrorAmounts :
          /\ stacks' = InvAdd(stacks, resource, amount)
          /\ obs' = Observation("inventory.add", <<amount, 0, resource, None>>,
                                FALSE, WorldState, NoCommand, FALSE, FALSE, -1, NoCall)
    /\ UNCHANGED <<tiles, campfires, message>>
    /\ CallFrame

\* world.player.inventory.remove(resource, amount) with a zero or negative amount
InventoryRemoveInError ==
    /\ clock < MaxCalls
    /\ \E resource \in Items, amount \in ErrorAmounts :
          \E r \in {InvRemove(stacks, resource, amount)} :
              /\ stacks' = r.stacks
              /\ obs' = Observation("inventory.remove", <<amount, 0, resource, None>>,
                                    r.ret, WorldState, NoCommand, FALSE, FALSE, -1, NoCall)
    /\ UNCHANGED <<tiles, campfires, message>>
    /\ CallFrame

\* entity.move_towards(target, ANIMAL_MOVE_SPEED, dt) on the companion, called
\* on its own; the observation keeps the target, the step speed * dt and the
\* position before the call
EntityMove ==
    /\ clock < MaxTicks
    /\ \E t \in TargetTiles, dt \in PlayerTickLengths :
          \E r \in {MoveTowards(animal.position, TargetOf(t),
                                StepLength(ANIMAL_MOVE_SPEED, dt))} :
              /\ animal' = [animal EXCEPT !.position = r.position]
              /\ obs' = Observation("move_towards",
                                    <<TargetOf(t), StepLength(ANIMAL_MOVE_SPEED, dt),
                                      animal.position>>,
                                    FALSE, NoWorld, NoCommand, FALSE, FALSE,
                                    r.distance2, NoCall)
    /\ clock' = clock + 1
    /\ UNCHANGED <<tiles, stacks, campfires, message, player, next_id, activated, invoked>>
    /\ UNCHANGED aside

\* world.animal.enqueue_sequence([goto A, take B, place(C, wood_block)]) on
\* the idle companion of a new world; `sent` keeps the sequence
EnqueueTriple ==
    /\ next_id = 0
    /\ clock = 0
    /\ \E a \in TargetTiles, b \in TargetTiles, c \in TargetTiles :
          \E commands \in {<<Command("goto", TargetOf(a), None, 1),
                             Command("take", TargetOf(b), None, 2),
                             Command("place", TargetOf(c), "wood_block", 3)>>} :
              /\ animal' = EnqueueSequence(animal, commands)
              /\ sent' = commands
    /\ next_id' = 3
    /\ obs' = Observation("enqueue_sequence", NoArgs, FALSE, NoWorld,
                          NoCommand, FALSE, FALSE, -1, NoCall)
    /\ UNCHANGED <<tiles, stacks, campfires, message, player, clock, activated, invoked>>
    /\ UNCHANGED <<menu, app>>

\* the ticks that run the sequence
SequenceTick == sent # <<>> /\ AnimalTickWithin(MaxSequenceTicks)

\* the companion written with to_dict and rebuilt with from_dict
AnimalRoundTrip ==
    /\ animal' = AnimalFromDict(AnimalToDict(animal))
    /\ obs' = Observation("animal.round_trip", NoArgs, FALSE, NoWorld,
                          NoCommand, FALSE, FALSE, -1, NoCall)
    /\ UNCHANGED <<tiles, stacks, campfires, message, player, clock, next_id,
                   activated, invoked>>
    /\ UNCHANGED aside

(* --------------------------- world save data ---------------------------- *)

\* the seed the grid was generated from
SavedSeed == CHOOSE seed \in Seeds : TRUE

\* TileGrid serialisation: the seed, the size and the tiles in row-major order
TileMapToDict(t, w, h) ==
    [seed |-> SavedSeed,
     size |-> ListOf(<<w, h>>),
     tiles |-> [i \in 1 .. w * h |->
                   LET tile == t[<<(i - 1) % w, (i - 1) \div w>>]
                   IN  [terrain |-> tile.terrain, walkable |-> tile.walkable,
                        resource |-> tile.resource, block |-> tile.block]]]

\* TileGrid reconstruction: the record at place y * width + x is tile (x, y)
TileMapFromDict(data) ==
    LET w == data.size.list[1]
        h == data.size.list[2]
    IN  [c \in Coords(w, h) |-> data.tiles[c[2] * w + c[1] + 1]]

\* Inventory.to_dict
InventoryToDict(s) == [stacks |-> s]

\* Inventory.from_dict
InventoryFromDict(data) ==
    [resource \in DOMAIN data.stacks |-> data.stacks[resource]]

\* Player serialisation: position, hunger, inventory and selected block
PlayerToDict(p, s) ==
    [position |-> ListOf(p.position),
     hunger |-> p.hunger,
     inventory |-> InventoryToDict(s),
     selected_block |-> p.selected_block]

\* Player reconstruction: a player standing at the saved position
PlayerFromDict(data) ==
    [position |-> data.position.list,
     target_tile |-> TileCentre(data.position.list),
     hunger |-> data.hunger,
     selected_block |-> data.selected_block,
     is_moving |-> FALSE]

\* World.to_dict: the world-state blob of a save file
WorldToDict(t, s, p, a) ==
    [tilemap |-> TileMapToDict(t, GridWidth, GridHeight),
     player |-> PlayerToDict(p, s),
     animal |-> AnimalToDict(a)]

\* World.from_save that generates the grid afresh from the seed
WorldFromSaveFresh(data) ==
    [tiles |-> Generate(data.tilemap.size.list[1], data.tilemap.size.list[2],
                        data.tilemap.seed),
     stacks |-> InventoryFromDict(data.player.inventory),
     player |-> PlayerFromDict(data.player),
     animal |-> AnimalFromDict(data.animal),
     campfires |-> <<>>,
     message |-> NoMessage]

\* World.from_save: grid, player and companion rebuilt from the blob
WorldFromSave(data) ==
    [tiles |-> TileMapFromDict(data.tilemap),
     stacks |-> InventoryFromDict(data.player.inventory),
     player |-> PlayerFromDict(data.player),
     animal |-> AnimalFromDict(data.animal),
     campfires |-> <<>>,
     message |-> NoMessage]

\* save_world then load_world of the same slot
WorldRoundTrip ==
    /\ \E w \in {WorldFromSave(WorldToDict(tiles, stacks, player, animal))} :
          /\ tiles' = w.tiles
          /\ stacks' = w.stacks
          /\ player' = w.player
          /\ animal' = w.animal
          /\ campfires' = w.campfires
          /\ message' = w.message
    /\ obs' = Observation("world.round_trip", NoArgs, FALSE, WorldState,
                          NoCommand, FALSE, FALSE, -1, NoCall)
    /\ UNCHANGED <<clock, next_id, activated, invoked>>
    /\ UNCHANGED aside

(* -------------------------- ui/command_menu.py -------------------------- *)

\* COMMANDS: the identifiers offered by the keys 1, 2 and 3
MenuCommands == {"goto", "take", "place"}

\* the commands numbered from id + 1 in their order
Numbered(commands, id) ==
    [i \in 1 .. Len(commands) |-> [commands[i] EXCEPT !.id = id + i]]

\* what a menu event leaves alone
MenuFrame ==
    /\ obs' = Observation("command_menu", NoArgs, FALSE, NoWorld,
                          NoCommand, FALSE, FALSE, -1, NoCall)
    /\ UNCHANGED <<tiles, stacks, campfires, message, player, clock, activated, invoked>>
    /\ UNCHANGED <<sent, app>>

\* CommandMenu.handle_event, K_l: show or hide the menu
MenuToggle ==
    /\ menu' = [menu EXCEPT !.visible = ~menu.visible,
                            !.pending = IF menu.visible THEN None ELSE @]
    /\ UNCHANGED <<animal, next_id>>
    /\ MenuFrame

\* CommandMenu.handle_event, keys 1 to 3: _start_command
MenuStart ==
    /\ menu.visible
    /\ \E identifier \in MenuCommands : menu' = [menu EXCEPT !.pending = identifier]
    /\ UNCHANGED <<animal, next_id>>
    /\ MenuFrame

\* CommandMenu.handle_event, left click with a pending command: the command
\* joins the sequence when the click is on a tile of the map
MenuClick ==
    /\ menu.visible
    /\ menu.pending # None
    /\ next_id + Len(menu.sequence) < MaxCommands
    /\ \E t \in TargetTiles :
          menu' = IF InBounds(GridWidth, GridHeight, t[1], t[2])
                  THEN [menu EXCEPT
                           !.sequence = Append(@, Command(menu.pending, TargetOf(t),
                                                   IF menu.pending = "place"
                                                   THEN player.selected_block ELSE None,
                                                   0)),
                           !.pending = None]
                  ELSE menu
    /\ UNCHANGED <<animal, next_id>>
    /\ MenuFrame

\* CommandMenu.handle_event, K_RETURN: send the sequence to the companion
MenuReturn ==
    /\ menu.visible
    /\ IF menu.sequence # <<>>
       THEN /\ animal' = EnqueueSequence(animal, Numbered(menu.sequence, next_id))
            /\ next_id' = next_id + Len(menu.sequence)
            /\ menu' = [menu EXCEPT !.sequence = <<>>]
       ELSE UNCHANGED <<animal, next_id, menu>>
    /\ MenuFrame

\* CommandMenu.handle_event, K_BACKSPACE: drop the last command of the sequence
MenuBackspace ==
    /\ menu.visible
    /\ menu.sequence # <<>>
    /\ menu' = [menu EXCEPT !.sequence = SubSeq(@, 1, Len(@) - 1)]
    /\ UNCHANGED <<animal, next_id>>
    /\ MenuFrame

\* CommandMenu.handle_event, K_ESCAPE: forget the command awaiting its target
MenuEscape ==
    /\ menu.visible
    /\ menu' = [menu EXCEPT !.pending = None]
    /\ UNCHANGED <<animal, next_id, tiles, stacks, campfires, message, player, clock,
                   activated, invoked, sent, app>>
    /\ obs' = Observation("command_menu.escape", NoArgs, FALSE, NoWorld,
                          NoCommand, FALSE, FALSE, -1, NoCall)

(* ----------------------- storage/save_manager.py ------------------------ *)

\* the ways the file of a slot can be malformed: not JSON, a payload that is
\* no object, metadata that is no mapping, no world blob, a world blob that
\* is no object, a world blob without seed, one without grid dimensions
MalformedKinds ==
    {"invalid_json", "not_object", "bad_metadata", "no_world", "world_not_object",
     "no_seed", "no_size"}

\* the file save_world writes
SavedFile(data) == [kind |-> "valid", world |-> data]

\* World.from_save on a world blob that is an object: the load is rejected
\* when the seed or the grid dimensions are absent
FromSaveOutcome(file) ==
    IF file.kind \in {"no_seed", "no_size"} THEN "ValueError" ELSE "world"

\* load_world: what the call ends with
LoadWorld(file) ==
    IF file.kind = "absent" THEN "FileNotFoundError"
    ELSE IF file.kind = "invalid_json" THEN "ValueError"
    ELSE IF file.kind = "not_object" THEN "AttributeError"
    ELSE IF file.kind = "bad_metadata" THEN "TypeError"
    ELSE IF file.kind \in {"no_world", "world_not_object"} THEN "ValueError"
    ELSE FromSaveOutcome(file)

\* main, action load_world: the state of the loop after the call
StateAfterLoad(outcome) ==
    IF outcome = "world" THEN "game"
    ELSE IF outcome \in {"FileNotFoundError", "ValueError"} THEN "menu"
    ELSE "crashed"

\* what the events of main leave alone
MainFrame ==
    UNCHANGED <<clock, next_id, activated, invoked, sent, menu>>

\* main, game state: K_ESCAPE pauses
Pause ==
    /\ app.state = "game"
    /\ app' = [app EXCEPT !.state = "pause"]
    /\ obs' = Observation("pause", NoArgs, FALSE, NoWorld,
                          NoCommand, FALSE, FALSE, -1, NoCall)
    /\ UNCHANGED <<tiles, stacks, campfires, message, player, animal>>
    /\ MainFrame

\* main, pause state: resume
Resume ==
    /\ app.state = "pause"
    /\ app' = [app EXCEPT !.state = "game"]
    /\ obs' = Observation("resume", NoArgs, FALSE, NoWorld,
                          NoCommand, FALSE, FALSE, -1, NoCall)
    /\ UNCHANGED <<tiles, stacks, campfires, message, player, animal>>
    /\ MainFrame

\* main, pause state: save_quit writes the slot and returns to the menu
SaveQuit ==
    /\ app.state = "pause"
    /\ app' = [app EXCEPT !.state = "menu",
                          !.file = SavedFile(WorldToDict(tiles, stacks, player, animal))]
    /\ obs' = Observation("save_quit", NoArgs, FALSE, NoWorld,
                          NoCommand, FALSE, FALSE, -1, NoCall)
    /\ UNCHANGED <<tiles, stacks, campfires, message, player, animal>>
    /\ MainFrame

\* the file of the slot is deleted or damaged outside the game
Damage ==
    /\ app.state = "menu"
    /\ \E kind \in MalformedKinds \cup {"absent"} :
          app' = [app EXCEPT !.file = [kind |-> kind]]
    /\ obs' = Observation("damage", NoArgs, FALSE, NoWorld,
                          NoCommand, FALSE, FALSE, -1, NoCall)
    /\ UNCHANGED <<tiles, stacks, campfires, message, player, animal>>
    /\ MainFrame

\* main, menu state: action load_world
LoadSlot ==
    /\ app.state = "menu"
    /\ \E outcome \in {LoadWorld(app.file)} :
          /\ app' = [app EXCEPT !.state = StateAfterLoad(outcome),
                                !.outcome = outcome]
          /\ IF outcome = "world"
             THEN \E w \in {WorldFromSave(app.file.world)} :
                     /\ tiles' = w.tiles
                     /\ stacks' = w.stacks
                     /\ player' = w.player
                     /\ animal' = w.animal
                     /\ campfires' = w.campfires
                     /\ message' = w.message
             ELSE UNCHANGED <<tiles, stacks, campfires, message, player, animal>>
    /\ obs' = Observation("load_world", NoArgs, FALSE, NoWorld,
                          NoCommand, FALSE, FALSE, -1, NoCall)
    /\ MainFrame

\* main, game state: a frame in which the player walks
GameFrame ==
    /\ app.state = "game"
    /\ PlayerTickWithin(MaxFrames)

(* ---------------------------- specifications ---------------------------- *)

\* the companion alone: enqueue_sequence and Animal.update
NextAnimal == Enqueue \/ AnimalTick
SpecAnimal == Init /\ [][NextAnimal]_vars

\* the player alone: Player.update
NextPlayer == PlayerTick
SpecPlayer == Init /\ [][NextPlayer]_vars

\* the frame loop: enqueue_sequence and World.update
Next == Enqueue \/ WorldTick
Spec == Init /\ [][Next]_vars


\* the interaction helpers, called in any order
NextCalls ==
    \/ HarvestAt
    \/ PlaceBlock
    \/ TilePlaceBlock
    \/ TileClearBlock
    \/ TileRemoveResource
    \/ InventoryAdd
SpecCalls == Init /\ [][NextCalls]_vars

\* Entity.move_towards called repeatedly on one entity
NextMove == EntityMove
SpecMove == Init /\ [][NextMove]_vars

\* one sequence goto, take, place run on a new world
NextSequence == EnqueueTriple \/ SequenceTick
SpecSequence == Init /\ [][NextSequence]_vars

\* the companion driven from the command menu
NextMenu ==
    \/ MenuToggle
    \/ MenuStart
    \/ MenuClick
    \/ MenuReturn
    \/ MenuBackspace
    \/ MenuEscape
    \/ AnimalTick
SpecMenu == Init /\ [][NextMenu]_vars

\* the companion at work, saved and loaded at any moment
NextSave ==
    \/ Enqueue
    \/ AnimalTick
    \/ AnimalRoundTrip
SpecSave == Init /\ [][NextSave]_vars

\* a sequence at work and the player walking, saved and loaded at any moment
NextWorldSave ==
    \/ EnqueueTriple
    \/ SequenceTick
    \/ PlayerTickWithin(MaxFrames)
    \/ WorldRoundTrip
SpecWorldSave == Init /\ [][NextWorldSave]_vars

\* the main loop around a save slot
NextLoad ==
    \/ Pause
    \/ Resume
    \/ SaveQuit
    \/ Damage
    \/ LoadSlot
    \/ GameFrame
SpecLoad == Init /\ [][NextLoad]_vars

\* Inventory.add and Inventory.remove called with positive amounts
NextInventory ==
    \/ InventoryAdd
    \/ InventoryRemove
SpecInventory == Init /\ [][NextInventory]_vars

\* Inventory.add and Inventory.remove called in error on a stocked inventory
NextInventoryError ==
    \/ InventoryAdd
    \/ InventoryAddInError
    \/ InventoryRemoveInError
SpecInventoryError == Init /\ [][NextInventoryError]_vars

\* the grid queried and changed at coordinates inside and outside of it
NextGrid ==
    \/ HarvestAt
    \/ PlaceBlock
    \/ TilePlaceBlock
    \/ TileClearBlock
    \/ TileRemoveResource
    \/ TileGet
    \/ TileIsWalkable
SpecGrid == Init /\ [][NextGrid]_vars

\* a map harvested, built on and generated again
NextGenerate ==
    \/ Regenerate
    \/ HarvestAt
    \/ TilePlaceBlock
    \/ RandomUse
SpecGenerate == Init /\ [][NextGenerate]_vars

\* the terrain classification on its own
NextClassify == Classify
SpecClassify == Init /\ [][NextClassify]_vars

\* the isometric projection and its inverse
NextPick == PickCentre
SpecPick == Init /\ [][NextPick]_vars

\* the player walking over a generated map and harvesting around
NextNear ==
    \/ Regenerate
    \/ PlayerTick
    \/ HarvestNearPlayer
SpecNear == Init /\ [][NextNear]_vars

\* worlds created one after another and run for a few frames
NextCreate ==
    \/ NewWorld
    \/ WorldTick
SpecCreate == Init /\ [][NextCreate]_vars

\* the main loop of Game.run: a frame follows a frame while one is left
Frame == clock < MaxHoldTicks /\ clock' = clock + 1

\* the player with one direction held, under a main loop that keeps running
NextHold == HoldTick
SpecHold == Init /\ [][NextHold]_vars /\ WF_clock(Frame)

\* the main loop while the companion has work: a frame follows a frame
RunFrame == Busy(animal) /\ clock < MaxRunTicks /\ clock' = clock + 1

\* a finite sequence of commands run to its end
NextRun == EnqueueFirst \/ RunTick
SpecRun == Init /\ [][NextRun]_vars /\ WF_clock(RunFrame)

(* ------------------------------ properties ------------------------------ *)

\* the ids of a sequence of commands
Ids(commands) == [i \in 1 .. Len(commands) |-> commands[i].id]

\* the ids first .. last in increasing order
Range(first, last) == [i \in 1 .. last - first + 1 |-> first + i - 1]

\* C1: commands are numbered in the order they are enqueued; they become
\* active in exactly that order, the pending queue always holds the not yet
\* activated ones in that order, and the single active command is the last
\* one activated. A command is taken from the head of the queue, and only in
\* a tick that starts with no active command. Enqueuing leaves the active
\* command alone and keeps the pending commands, in order, in front of the
\* new ones.
C1_FifoOrder ==
    /\ [](/\ activated = Range(1, Len(activated))
          /\ Ids(animal.pending_commands) = Range(Len(activated) + 1, next_id)
          /\ animal.active_command # NoCommand
                => animal.active_command.id = Len(activated))
    /\ [][/\ activated' # activated
                => /\ animal.active_command = NoCommand
                   /\ animal.pending_commands # <<>>
                   /\ activated' = Append(activated, Head(animal.pending_commands).id)
                   /\ animal'.pending_commands = Tail(animal.pending_commands)
          /\ obs'.op = "enqueue_sequence"
                => /\ animal'.active_command = animal.active_command
                   /\ Len(animal'.pending_commands) > Len(animal.pending_commands)
                   /\ SubSeq(animal'.pending_commands, 1, Len(animal.pending_commands))
                          = animal.pending_commands]_vars

\* C1's case: a second command was enqueued while the first was still
\* pending or active, and both have been activated
C1_Witness ==
    /\ Len(activated) = 2
    /\ animal.active_command # NoCommand
    /\ animal.active_command.id = 2
    /\ next_id = 2

\* the tile that contains a position
TileOf(position) == <<FloorTile(position[1]), FloorTile(position[2])>>

\* the tile the companion is constructed on: World.__init__, line 35
AnimalStartTile == <<SpawnTile[1] + 2, SpawnTile[2]>>

\* C2: given that the companion started on a walkable tile, after every
\* Animal.update the tile that contains its position is walkable.
C2_CompanionOnWalkable ==
    tiles[AnimalStartTile].walkable
        => IsWalkable(tiles, GridWidth, GridHeight,
                      TileOf(animal.position)[1], TileOf(animal.position)[2])

\* C3: on a fixed map, after every Player.update, whatever the keys and the
\* tick length, the tile that contains the player's position is walkable.
C3_PlayerOnWalkable ==
    IsWalkable(tiles, GridWidth, GridHeight,
               TileOf(player.position)[1], TileOf(player.position)[2])

\* a position within the grid: 0 <= x < width and 0 <= y < height
InGrid(position) ==
    /\ 0 <= position[1] /\ position[1] < GridWidth * Unit
    /\ 0 <= position[2] /\ position[2] < GridHeight * Unit

\* C4: after every World.update, whatever the keys, the command targets and
\* the tick length, the player's and the companion's positions are both
\* within the grid.
C4_PositionsClamped == InGrid(player.position) /\ InGrid(animal.position)

\* C5: TileMap.place_block returns false and changes nothing whenever
\* is_walkable is false for the tile (out of bounds, water, or a tile that
\* already carries an obstructing block); otherwise it returns true, sets
\* the block, clears the resource, and is_walkable is false afterwards.
C5_TilePlaceBlock ==
    obs.op = "tilemap.place_block"
        => LET x == obs.args[1]
               y == obs.args[2]
           IN  IF IsWalkable(obs.pre.tiles, GridWidth, GridHeight, x, y)
               THEN /\ obs.ret
                    /\ tiles[<<x, y>>].block = obs.args[3]
                    /\ tiles[<<x, y>>].resource = None
                    /\ ~IsWalkable(tiles, GridWidth, GridHeight, x, y)
               ELSE /\ ~obs.ret
                    /\ tiles = obs.pre.tiles

\* C6: whatever harvest, place_block and clear_block calls were made, through
\* World or directly on TileMap, a tile that carries wood_block, stone_block
\* or campfire is not walkable whatever its terrain, and a water tile is
\* not walkable and carries no block.
C6_GridInvariant ==
    \A c \in Coords(GridWidth, GridHeight) :
        /\ tiles[c].block \in {"wood_block", "stone_block", "campfire"}
              => ~IsWalkable(tiles, GridWidth, GridHeight, c[1], c[2])
        /\ tiles[c].terrain = "water"
              => /\ ~IsWalkable(tiles, GridWidth, GridHeight, c[1], c[2])
                 /\ tiles[c].block = None

\* C6's case: a block stands on some tile and the last call tried, in vain,
\* to place one on a water tile
C6_Witness ==
    /\ \E c \in Coords(GridWidth, GridHeight) : tiles[c].block \in ObstructingBlocks
    /\ obs.op \in {"place_block", "tilemap.place_block"}
    /\ InBounds(GridWidth, GridHeight, obs.args[1], obs.args[2])
    /\ tiles[<<obs.args[1], obs.args[2]>>].terrain = "water"
    /\ ~obs.ret

\* the tiles other than c are as they were
OthersUnchanged(before, after, c) ==
    \A d \in Coords(GridWidth, GridHeight) \ {c} : after[d] = before[d]

\* C7: World.harvest_at on a tile with no resource (or out of the grid)
\* returns false and leaves grid and inventory unchanged; on a tile with a
\* resource it returns true, adds the resource's yield to the player's
\* inventory (through Inventory.add, which stops at MAX_STACK_SIZE) and
\* leaves the tile's resource null, the rest of the grid and of the
\* inventory untouched; a second harvest_at on that tile then returns false
\* and changes nothing.
C7_HarvestAt ==
    obs.op = "harvest_at"
        => LET c == <<obs.args[1], obs.args[2]>>
               had == /\ InBounds(GridWidth, GridHeight, c[1], c[2])
                      /\ obs.pre.tiles[c].resource # None
           IN  IF had
               THEN LET item == YieldItem(obs.pre.tiles[c].resource)
                        gain == YieldAmount(obs.pre.tiles[c].resource)
                        again == WorldHarvestAt(WorldState, c[1], c[2], "player")
                    IN  /\ obs.ret
                        /\ InvAmount(stacks, item)
                              = Min(MAX_STACK_SIZE, InvAmount(obs.pre.stacks, item) + gain)
                        /\ \A k \in Items \ {item} :
                              InvAmount(stacks, k) = InvAmount(obs.pre.stacks, k)
                        /\ tiles[c] = [obs.pre.tiles[c] EXCEPT !.resource = None]
                        /\ OthersUnchanged(obs.pre.tiles, tiles, c)
                        /\ ~again.ret
                        /\ again.world = WorldState
               ELSE /\ ~obs.ret
                    /\ tiles = obs.pre.tiles
                    /\ stacks = obs.pre.stacks

\* C7's case: the tree has been harvested into a stack that was not empty
C7_Witness ==
    /\ obs.op = "harvest_at"
    /\ obs.ret
    /\ obs.pre.tiles[<<obs.args[1], obs.args[2]>>].resource = "tree"
    /\ InvAmount(obs.pre.stacks, "wood") = 1
    /\ InvAmount(stacks, "wood") = 3

\* what a block costs of an item
CostOf(block, item) ==
    LET cost == BlockCost(block)
        at == {i \in 1 .. Len(cost) : cost[i][1] = item}
    IN  IF at = {} THEN 0 ELSE cost[CHOOSE i \in at : TRUE][2]

\* C8: World.place_block, for every block, tile, inventory and actor, either
\* returns true, the tile then carries the block and exactly the block's
\* cost has left the inventory, or returns false and inventory and grid are
\* unchanged; no count is ever negative.
C8_PlaceBlockTransactional ==
    /\ \A k \in DOMAIN stacks : stacks[k] >= 0
    /\ obs.op = "place_block"
          => LET c == <<obs.args[1], obs.args[2]>>
                 block == obs.args[3]
             IN  IF obs.ret
                 THEN /\ InBounds(GridWidth, GridHeight, c[1], c[2])
                      /\ tiles[c].block = block
                      /\ OthersUnchanged(obs.pre.tiles, tiles, c)
                      /\ \A k \in Items :
                            InvAmount(stacks, k)
                                = InvAmount(obs.pre.stacks, k) - CostOf(block, k)
                 ELSE /\ stacks = obs.pre.stacks
                      /\ tiles = obs.pre.tiles

\* C8's case: the animal has placed a campfire, which costs two resources
C8_Witness ==
    /\ obs.op = "place_block"
    /\ obs.ret
    /\ obs.args[3] = "campfire"
    /\ obs.args[4] = "animal"
    /\ InvAmount(obs.pre.stacks, "wood") > InvAmount(stacks, "wood")
    /\ InvAmount(obs.pre.stacks, "stone") > InvAmount(stacks, "stone")

\* a command is in the queue or active
Queued(id) ==
    \/ animal.active_command.id = id
    \/ \E i \in 1 .. Len(animal.pending_commands) : animal.pending_commands[i].id = id

\* C9: no command makes its world call more than once, and one that has made
\* it is neither active nor pending any more. In a tick that runs a place
\* command, place_block is invoked exactly when the companion is within
\* reach of the target, and exactly then the command is complete
\* (active_command is None), whatever place_block returned; otherwise the
\* command stays active.
C9_PlaceConsumedOnce ==
    /\ \A id \in 1 .. MaxCommands :
          /\ invoked[id] <= 1
          /\ invoked[id] = 1 => ~Queued(id)
    /\ (obs.op = "animal.update" /\ obs.ran.type = "place")
          => /\ obs.call.made <=> obs.distance2 <= PlaceReach * PlaceReach
             /\ obs.finished <=> obs.call.made
             /\ obs.finished => animal.active_command = NoCommand
             /\ ~obs.finished => animal.active_command = obs.ran

\* C9's case: a placement has just failed and its command is gone
C9_Witness ==
    /\ obs.op = "animal.update"
    /\ obs.ran.type = "place"
    /\ obs.call.made
    /\ ~obs.call.ret
    /\ animal.active_command = NoCommand
    /\ invoked[obs.ran.id] = 1

\* a tick that runs a take command
TakeTick == obs'.op = "animal.update" /\ obs'.ran.type = "take"

\* what a tick that runs a take command does to the companion and the world:
\* harvest_at is invoked exactly when the companion was within reach of the
\* target, the companion is then no farther from it, and the yield of the
\* target tile's resource, if any, goes to the player's inventory
TakeEffects ==
    LET c == <<IntTile(obs'.ran.target[1]), IntTile(obs'.ran.target[2])>>
        had == /\ InBounds(GridWidth, GridHeight, c[1], c[2])
               /\ tiles[c].resource # None
    IN  /\ obs'.call.made <=> obs'.distance2 <= TakeReach * TakeReach
        /\ obs'.call.made
              => /\ Len2(VecSub(animal'.position, obs'.ran.target))
                        <= TakeReach * TakeReach
                 /\ obs'.call.ret <=> had
        /\ (obs'.call.made /\ had)
              => /\ stacks' = InvAdd(stacks, YieldItem(tiles[c].resource),
                                     YieldAmount(tiles[c].resource))
                 /\ tiles' = [tiles EXCEPT ![c].resource = None]
        /\ ~(obs'.call.made /\ had) => UNCHANGED <<tiles, stacks>>
        /\ obs'.finished => animal'.active_command = NoCommand
        /\ ~obs'.finished => animal'.active_command = obs'.ran

\* C10, as amended: a take command moves the companion to the target, then
\* invokes harvest_at on the target tile, which routes the yield to the
\* player's inventory, and the command completes in the tick of that call
\* whether the harvest succeeded or not.
C10_TakeCompletesWhenInvoked ==
    [][TakeTick => (TakeEffects /\ (obs'.finished <=> obs'.call.made))]_vars

\* C10, as stated: ... and the command completes on success of that harvest,
\* that is, exactly in a tick whose harvest_at returned true.
C10_TakeCompletesOnSuccess ==
    [][TakeTick
          => (TakeEffects /\ (obs'.finished <=> (obs'.call.made /\ obs'.call.ret)))]_vars

\* C10's case: a take command has harvested the tree and is complete
C10_Witness ==
    /\ obs.op = "animal.update"
    /\ obs.ran.type = "take"
    /\ obs.call.made
    /\ obs.call.ret
    /\ obs.finished
    /\ animal.position = obs.ran.target
    /\ InvAmount(stacks, "wood") = 2

\* C11: a goto command is complete at the end of a tick exactly when the
\* companion's distance to the target after that tick's move is at most the
\* arrival epsilon (0.1): it completes in the tick in which the companion
\* reaches the target and never while it is farther away.
C11_GotoCompletesOnArrival ==
    (obs.op = "animal.update" /\ obs.ran.type = "goto")
        => (obs.finished
               <=> Len2(VecSub(obs.ran.target, animal.position)) <= GotoReach * GotoReach)

\* C12: Entity.move_towards moves the entity by at most speed * dt, never
\* farther from the target than it was and never past it, and returns the
\* distance from the new position to the target.
C12_MoveTowardsRemaining ==
    obs.op = "move_towards"
        => LET target == obs.args[1]
               step == obs.args[2]
               before == obs.args[3]
           IN  /\ Len2(VecSub(animal.position, before)) <= step * step
               /\ Len2(VecSub(target, animal.position)) <= Len2(VecSub(target, before))
               /\ Len2(VecSub(animal.position, before)) <= Len2(VecSub(target, before))
               /\ obs.distance2 = Len2(VecSub(target, animal.position))

\* the maps a new world can start from
NewMaps == {Generate(GridWidth, GridHeight, seed) : seed \in Seeds}

\* the tile a command addresses
TargetTile(command) == <<IntTile(command.target[1]), IntTile(command.target[2])>>

\* the sequence that was sent has just been completed
SequenceCompleted ==
    /\ sent # <<>>
    /\ obs.op = "animal.update"
    /\ obs.finished
    /\ obs.ran = sent[3]

\* C13, its end: when [goto A, take B, place(C, wood_block)], sent to the
\* idle companion of a new world, has just completed, the companion is idle
\* again and within reach of C, B's tile holds no resource, the inventory
\* holds the yield of B's resource less the cost of the block if it was
\* placed, and tile C carries wood_block exactly when wood was there to pay
\* for it and C was walkable.
SequenceEnd ==
    SequenceCompleted
        => \E new \in NewMaps :
              LET b == TargetTile(sent[2])
                  c == TargetTile(sent[3])
                  had == /\ InBounds(GridWidth, GridHeight, b[1], b[2])
                         /\ new[b].resource # None
                  placed == /\ InBounds(GridWidth, GridHeight, c[1], c[2])
                            /\ tiles[c].block = "wood_block"
                  gain(k) == IF had /\ YieldItem(new[b].resource) = k
                             THEN YieldAmount(new[b].resource) ELSE 0
              IN  /\ activated = <<1, 2, 3>>
                  /\ animal.active_command = NoCommand
                  /\ animal.pending_commands = <<>>
                  /\ Len2(VecSub(sent[3].target, animal.position))
                        <= PlaceReach * PlaceReach
                  /\ had => tiles[b].resource = None
                  /\ placed <=> (gain("wood") >= 1
                                 /\ IsWalkable(new, GridWidth, GridHeight, c[1], c[2]))
                  /\ \A k \in Items :
                        InvAmount(stacks, k)
                            = gain(k) - (IF placed /\ k = "wood" THEN 1 ELSE 0)

\* C13, its placement: in the tick that invokes place_block for the sequence,
\* the block is placed and its cost taken exactly when the cost and the
\* walkability checks hold at that moment; otherwise grid and inventory
\* stay as they are.
SequencePlacement ==
    (obs'.op = "animal.update" /\ obs'.ran.type = "place" /\ obs'.call.made)
        => LET c == TargetTile(obs'.ran)
               held == /\ InvAmount(stacks, "wood") >= 1
                       /\ IsWalkable(tiles, GridWidth, GridHeight, c[1], c[2])
           IN  /\ obs'.call.ret <=> held
               /\ obs'.finished
               /\ held => /\ tiles'[c].block = "wood_block"
                          /\ InvAmount(stacks', "wood") = InvAmount(stacks, "wood") - 1
               /\ ~held => UNCHANGED <<tiles, stacks>>

\* C13: after [goto A, take B, place(C, wood_block)] on an idle companion,
\* run until the companion is idle again, the companion is approximately at
\* C, the inventory has gained the yield of B's resource, and tile C carries
\* wood_block exactly when the cost and walkability checks held at the time
\* of placement (otherwise nothing was placed and no cost deducted).
C13_SequenceOutcome == []SequenceEnd /\ [][SequencePlacement]_vars

\* C13's case: the sequence has completed with the tree harvested and the
\* block placed
C13_Witness ==
    /\ SequenceCompleted
    /\ InvAmount(stacks, "wood") = 1
    /\ tiles[TargetTile(sent[3])].block = "wood_block"

\* C14: the command queue has a caller-level cancellation (escape/clear):
\* once it is invoked no command is pending and none is active, so the
\* companion is idle on the next tick.
C14_EscapeCancels ==
    obs.op = "command_menu.escape"
        => /\ animal.pending_commands = <<>>
           /\ animal.active_command = NoCommand

\* C15: the companion rebuilt by from_dict from its to_dict has the same
\* position, hunger, pending commands in the same order and the same active
\* command with its target, and serialises to the same structure again.
C15_AnimalRoundTrip ==
    [][obs'.op = "animal.round_trip"
          => /\ animal'.position = animal.position
             /\ animal'.hunger = animal.hunger
             /\ animal'.pending_commands = animal.pending_commands
             /\ animal'.active_command = animal.active_command
             /\ AnimalToDict(animal') = AnimalToDict(animal)]_vars

\* a companion saved and loaded while a command is in progress and another waits
C15_Witness ==
    /\ obs.op = "animal.round_trip"
    /\ animal.active_command # NoCommand
    /\ animal.active_command.type \in {"goto", "take", "place"}
    /\ animal.pending_commands # <<>>
    /\ animal.hunger < FullHunger

C17_LoadOutcomes ==
    obs.op = "load_world"
        => /\ app.outcome \in {"world", "FileNotFoundError", "ValueError"}
           /\ app.outcome = "FileNotFoundError" <=> app.file.kind = "absent"
           /\ app.outcome = "ValueError" <=> app.file.kind \in MalformedKinds
           /\ app.outcome = "world" <=> app.file.kind = "valid"
           /\ app.state = (IF app.outcome = "world" THEN "game" ELSE "menu")

\* C18: after any add and remove calls with positive amounts every stored
\* count is between 1 and MAX_STACK_SIZE: add clamps at the maximum, remove
\* returns false and changes nothing when too little is held, and an entry
\* whose count reaches zero leaves the mapping.
C18_StacksInRange ==
    /\ \A k \in DOMAIN stacks : 1 <= stacks[k] /\ stacks[k] <= MAX_STACK_SIZE
    /\ obs.op \in {"inventory.add", "inventory.remove"}
          => LET amount == obs.args[1]
                 resource == obs.args[3]
                 before == InvAmount(obs.pre.stacks, resource)
             IN  /\ \A k \in Items \ {resource} :
                        InvAmount(stacks, k) = InvAmount(obs.pre.stacks, k)
                 /\ obs.op = "inventory.add"
                        => InvAmount(stacks, resource) = Min(MAX_STACK_SIZE, before + amount)
                 /\ obs.op = "inventory.remove"
                        => /\ obs.ret <=> before >= amount
                           /\ ~obs.ret => stacks = obs.pre.stacks
                           /\ obs.ret => InvAmount(stacks, resource) = before - amount
                           /\ (obs.ret /\ before = amount) => resource \notin DOMAIN stacks

\* a remove that took the whole of one entry while another is at the maximum
C18_Witness ==
    /\ obs.op = "inventory.remove"
    /\ obs.ret
    /\ obs.args[3] \notin DOMAIN stacks
    /\ obs.args[3] \in DOMAIN obs.pre.stacks
    /\ \E k \in DOMAIN stacks : stacks[k] = MAX_STACK_SIZE

\* C19: add and remove called with a zero or negative amount are no-ops: the
\* mapping afterwards is the mapping before.
C19_NonPositiveIsNoOp ==
    (obs.op \in {"inventory.add", "inventory.remove"} /\ obs.args[1] <= 0)
        => stacks = obs.pre.stacks

\* C20: a grid operation addressed outside the grid, negative coordinates
\* included, changes nothing and says so by its return value: is_walkable,
\* harvest_at and place_block return false, clear_block and remove_resource
\* do nothing, get neither raises nor returns the tile of other coordinates.
C20_OutsideGrid ==
    (/\ obs.op \in {"tilemap.get", "tilemap.is_walkable", "harvest_at", "place_block",
                    "tilemap.place_block", "tilemap.clear_block",
                    "tilemap.remove_resource"}
     /\ ~InBounds(GridWidth, GridHeight, obs.args[1], obs.args[2]))
        => /\ tiles = obs.pre.tiles
           /\ stacks = obs.pre.stacks
           /\ campfires = obs.pre.campfires
           /\ obs.op \in {"tilemap.is_walkable", "harvest_at", "place_block",
                          "tilemap.place_block"} => ~obs.ret
           /\ obs.op = "tilemap.get"
                 => /\ obs.call.ret
                    /\ obs.call.at = <<obs.args[1], obs.args[2]>>

\* generate(seed) on a new map, for each seed
FirstRuns == [seed \in GenerateSeeds |-> Generate(GridWidth, GridHeight, seed)]

\* C21: generate(s) gives the grid (terrain, walkable flag and resource of
\* every tile) that generate(s) gives on a new map, whatever was generated,
\* harvested or built before and however the shared random generator was used.
C21_GenerateDeterministic ==
    obs.op = "generate"
        => \A c \in Coords(GridWidth, GridHeight) :
              LET first == FirstRuns[obs.args[1]][c]
              IN  /\ tiles[c].terrain = first.terrain
                  /\ tiles[c].walkable = first.walkable
                  /\ tiles[c].resource = first.resource

\* a map generated again after a harvest, a block and a use of the shared
\* generator, with a seed that grows a resource
C21_Witness ==
    /\ obs.op = "generate"
    /\ app.random # 0
    /\ \E c \in Coords(GridWidth, GridHeight) : obs.pre.tiles[c].block # None
    /\ \E c \in Coords(GridWidth, GridHeight) :
          /\ obs.pre.tiles[c].resource = None
          /\ tiles[c].resource # None
    /\ obs.pre.stacks # EmptyStacks

\* the terrains of the five height bands, lowest band first
BandTerrains ==
    <<{"water"}, {"sand"}, {"grass", "dirt"}, {"dirt", "rock"}, {"rock"}>>
LowestBand(terrain) ==
    CHOOSE i \in 1 .. 5 : /\ terrain \in BandTerrains[i]
                          /\ \A j \in 1 .. i - 1 : terrain \notin BandTerrains[j]
HighestBand(terrain) ==
    CHOOSE i \in 1 .. 5 : /\ terrain \in BandTerrains[i]
                          /\ \A j \in i + 1 .. 5 : terrain \notin BandTerrains[j]

\* C22: the classification is monotonic in height over the bands water <
\* sand < {grass, dirt} < {dirt, rock} < rock: every height of [0, 1] gets a
\* terrain of a band, a higher height never gets a terrain that only lower
\* bands hold, and at one height the moisture chooses between the terrains
\* of a single band; only water is unwalkable.
C22_BandsMonotonic ==
    obs.op = "terrain_from_values"
        => LET h1 == obs.args[1]
               h2 == obs.args[2]
               t1 == obs.call.first[1]
               t2 == obs.call.second[1]
           IN  /\ \E i \in 1 .. 5 : t1 \in BandTerrains[i]
               /\ \E i \in 1 .. 5 : t2 \in BandTerrains[i]
               /\ h1 <= h2 => LowestBand(t1) <= HighestBand(t2)
               /\ h1 = h2 => \E i \in 1 .. 5 : {t1, t2} \subseteq BandTerrains[i]
               /\ obs.call.first[2] <=> t1 # "water"

\* a dry and a wet classification on a summit, above a hill classified as grass
C22_Witness ==
    /\ obs.op = "terrain_from_values"
    /\ obs.args[1] < obs.args[2]
    /\ obs.call.first[1] = "grass"
    /\ obs.call.second[1] = "rock"
    /\ obs.args[2] > 900
    /\ obs.args[4] > 650

\* C23: for every integer tile (tx, ty) and every camera offset,
\* screen_to_grid of the projected centre (tx + 0.5, ty + 0.5) is (tx, ty),
\* and tile_from_screen picks that tile when it is on the map.
C23_PickCentre ==
    obs.op = "tile_from_screen"
        => /\ obs.call.grid = <<obs.args[1], obs.args[2]>>
           /\ obs.call.picked.tile = <<obs.args[1], obs.args[2]>>
           /\ obs.call.picked.found
                 <=> InBounds(GridWidth, GridHeight, obs.args[1], obs.args[2])

\* the centre of a tile with negative coordinates picked under a fractional,
\* negative camera offset
C23_Witness ==
    /\ obs.op = "tile_from_screen"
    /\ obs.args[1] < 0
    /\ obs.args[2] < 0
    /\ obs.args[3] = -17
    /\ obs.args[4] = 5
    /\ obs.call.grid = <<obs.args[1], obs.args[2]>>

\* the point an idle companion follows: the player's position offset by (-1, 0)
FollowPoint(player_position) == VecAdd(player_position, <<-Unit, 0>>)

\* a tick of a companion with no active and no pending command
IdleTick ==
    /\ obs'.op = "animal.update"
    /\ animal.active_command = NoCommand
    /\ animal.pending_commands = <<>>

\* what an idle tick does to the position; a move is along the line to the
\* follow point up to the rounding of each coordinate to a step
IdleEffects ==
    LET follow == FollowPoint(player'.position)
        before == Len2(VecSub(follow, animal.position))
        after == Len2(VecSub(follow, animal'.position))
        moved == VecSub(animal'.position, animal.position)
        direction == VecSub(follow, animal.position)
    IN  /\ before <= FollowDistance * FollowDistance
            => animal'.position = animal.position
        /\ animal'.position # animal.position
            => /\ before > FollowDistance * FollowDistance
               /\ moved[1] * direction[1] + moved[2] * direction[2] > 0
               /\ Abs(moved[1] * direction[2] - moved[2] * direction[1])
                      <= Abs(direction[1]) + Abs(direction[2])
        /\ after <= before
        /\ before > FollowDistance * FollowDistance => after < before

\* C24: an idle tick moves the companion only when it is farther than 1.8
\* from the follow point, the move is directed at that point and never
\* increases the distance to it; within the threshold the position is kept.
C24_IdleFollow == [][IdleTick => IdleEffects]_vars

\* an idle companion that walked towards the follow point in the first tick
C24_Witness ==
    /\ obs.op = "animal.update"
    /\ obs.ran = NoCommand
    /\ clock = 1
    /\ next_id = 0
    /\ animal.position # NewAnimal(<<(SpawnTile[1] + 2) * Unit,
                                     SpawnTile[2] * Unit + Unit \div 2>>).position

\* the neighbours of tile (px, py) in the order of the scan: rows dy = -1, 0,
\* 1, in each row dx = -1, 0, 1
Neighbours(px, py) == [i \in 1 .. 9 |-> <<px + ((i - 1) % 3) - 1, py + ((i - 1) \div 3) - 1>>]

\* whether tile c of the grid t holds a resource
Harvestable(t, c) ==
    /\ InBounds(GridWidth, GridHeight, c[1], c[2])
    /\ t[c].resource # None

\* C25: harvest_near_player harvests the first tile of the 3 x 3
\* neighbourhood of the player's tile, in row-major order, that holds a
\* resource, and leaves every other tile unchanged; when no tile of the
\* neighbourhood holds one it returns false and changes neither grid nor
\* inventory.
C25_HarvestNearPlayer ==
    obs.op = "harvest_near_player"
        => LET near == Neighbours(obs.args[1], obs.args[2])
               hits == {i \in 1 .. 9 : Harvestable(obs.pre.tiles, near[i])}
           IN  IF hits = {}
               THEN /\ ~obs.ret
                    /\ tiles = obs.pre.tiles
                    /\ stacks = obs.pre.stacks
               ELSE LET first == CHOOSE i \in hits : \A j \in hits : i <= j
                        resource == obs.pre.tiles[near[first]].resource
                    IN  /\ obs.ret
                        /\ tiles = [obs.pre.tiles EXCEPT ![near[first]].resource = None]
                        /\ stacks = InvAdd(obs.pre.stacks, YieldItem(resource),
                                           YieldAmount(resource))

\* a harvest with two resources in the neighbourhood: one is left
C25_Witness ==
    /\ obs.op = "harvest_near_player"
    /\ obs.ret
    /\ \E i \in 1 .. 9 : Harvestable(tiles, Neighbours(obs.args[1], obs.args[2])[i])

\* the fields of the addressed tile a call on the grid may change
MayChange(op) ==
    CASE op = "harvest_at" -> {"resource"}
      [] op = "tilemap.remove_resource" -> {"resource"}
      [] op = "place_block" -> {"block", "resource"}
      [] op = "tilemap.place_block" -> {"block", "resource"}
      [] op = "tilemap.clear_block" -> {"block"}
      [] OTHER -> {}

GridCallOps ==
    {"harvest_at", "tilemap.remove_resource", "place_block", "tilemap.place_block",
     "tilemap.clear_block", "inventory.add"}

\* C26: under any sequence of harvest, place_block and clear_block calls the
\* grid keeps its size and every tile its terrain, and a call changes at most
\* the tile it addresses: harvest only its resource, place_block only its
\* block and resource, clear_block only its block.
C26_GridFrame ==
    /\ \E new \in NewMaps :
          /\ DOMAIN tiles = DOMAIN new
          /\ \A c \in DOMAIN new : tiles[c].terrain = new[c].terrain
    /\ obs.op \in GridCallOps
          => LET at == <<obs.args[1], obs.args[2]>>
                 before == obs.pre.tiles
             IN  \A c \in DOMAIN before :
                    \A field \in {"terrain", "walkable", "resource", "block"} :
                        tiles[c][field] # before[c][field]
                            => c = at /\ field \in MayChange(obs.op)

\* a block cleared from a tile that held a resource when it was generated
C26_Witness ==
    /\ obs.op = "tilemap.clear_block"
    /\ tiles # obs.pre.tiles
    /\ \E new \in NewMaps :
          new[<<obs.args[1], obs.args[2]>>].resource # None

\* the inputs of Player.update that take the player from one state to another
TickInputs(before, after) ==
    {in \in HeldKeys \X PlayerTickLengths :
        after = PlayerUpdate(before, tiles, in[1], in[2])}

\* the centre of the neighbouring tile in the direction of the keys
NeighbourCentre(target_tile, keys) ==
    <<target_tile[1] + MoveOf(keys)[1] * Unit, target_tile[2] + MoveOf(keys)[2] * Unit>>

IsTileCentre(v) == v[1] % Unit = Unit \div 2 /\ v[2] % Unit = Unit \div 2

\* what one Player.update does to the target tile
TargetEffects ==
    /\ IsTileCentre(player'.target_tile)
    /\ \A in \in TickInputs(player, player') :
          LET keys == in[1]
              step == StepLength(PLAYER_MOVE_SPEED, in[2])
              reached == PlayerFreeMove(player.position, tiles, MoveOf(keys), step)
              neighbour == NeighbourCentre(player.target_tile, keys)
              walkable == IsWalkable(tiles, GridWidth, GridHeight,
                                     FloorTile(neighbour[1]), FloorTile(neighbour[2]))
          IN  /\ player'.target_tile # player.target_tile
                    => /\ reached = player.target_tile
                       /\ MoveOf(keys) # <<0, 0>>
                       /\ player'.target_tile = neighbour
                       /\ walkable
              /\ MoveOf(keys) = <<0, 0>> \/ ~walkable
                    => player'.target_tile = player.target_tile

\* C27: the player's target tile is always the centre of a tile; it changes
\* only in a tick where the position coincides with the target when the keys
\* are read, and then to the centre of one of the 8 neighbouring tiles, one
\* for which is_walkable holds; with no key held or a neighbour that is not
\* walkable it is unchanged.
C27_TargetTile == [][PlayerTick => TargetEffects]_vars

\* C28: when a world is created the player and the companion both stand on
\* tiles for which is_walkable holds, for every generated map.
C28_SpawnWalkable ==
    obs.op = "world.__init__"
        => /\ IsWalkable(tiles, GridWidth, GridHeight,
                         FloorTile(player.position[1]), FloorTile(player.position[2]))
           /\ IsWalkable(tiles, GridWidth, GridHeight,
                         FloorTile(animal.position[1]), FloorTile(animal.position[2]))

\* the centre of the tile next to the start in the direction held
HeldNeighbour ==
    <<SpawnTile[1] * Unit + Unit \div 2 + obs.args[1] * Unit,
      SpawnTile[2] * Unit + Unit \div 2 + obs.args[2] * Unit>>

\* C29: with a direction held on every tick whose neighbouring tile is
\* walkable, after finitely many ticks with dt > 0 the target tile is that
\* neighbour and the player's position is its centre.
C29_HeldKeyArrives ==
    obs.op = "player.hold"
        ~> /\ obs.op = "player.hold"
           /\ player.target_tile = HeldNeighbour
           /\ player.position = HeldNeighbour

\* a tick in which a command of unknown type is active: it was dequeued in
\* this tick, it is discarded and the companion has not moved
UnknownDiscarded ==
    RunTick /\ obs'.ran.type \notin {None, "goto", "take", "place"}
        => /\ obs'.took
           /\ animal'.active_command = NoCommand
           /\ animal'.position = animal.position

=============================================================================
